---- MODULE Spec2Model ----
(***************************************************************************)
(* Verification model of the mercury-clone court case tracker:             *)
(*   - Supreme Court case-type resolution (sc-scraper resolveCaseTypeCode) *)
(*   - change detection of the cron route and of scripts/update-cases.ts   *)
(*   - the CAPTCHA retry loops of the SC and eCourts scrapers              *)
(*   - CourtService.getCaseStatus fallback chain                           *)
(*   - the update pipeline (cron route runCaseUpdates, script main)        *)
(* Strings that the code inspects character by character are sequences of  *)
(* one-character strings; opaque values are TLA+ strings.  JavaScript null *)
(* and undefined are NULL; "" is the empty string (both falsy).            *)
(***************************************************************************)
EXTENDS Integers, Sequences, FiniteSets, TLC

VARIABLES
    \* case-type resolution
    ctPc, ctType, ctCode, ctResult,
    \* change detection on one (stored row, fresh snapshot) pair
    detPc, detImpl, detRow, detFresh, detAlias, detChanges,
    \* one retry-bounded provider lookup
    lkPc, lkFn, lkAttempt, lkSession, lkResult,
    lkNegotiations, lkFailedNegotiations, lkSubmitted, lkRejected, lkStale, lkLast,
    \* one CourtService.getCaseStatus call
    svcPc, svcId, svcCalls, svcResult,
    \* the store: the cases table, the case_updates table, the notifications handed out
    cases, case_updates, notified,
    \* one pipeline run (cron route runCaseUpdates, or main of the script)
    plImpl, plPc, plRows, plBatch, plIdx, plFresh, plChanges, plChangeIdx,
    casesChecked, updatesFound, errorCount, updated,
    plNow, plResolved, plDeadlineAt, plDelays, plOutcomes,
    \* the runs so far, and what the court portal answers for a tracked case
    plRun, upstream, upstreamPrev,
    \* one CourtService.searchByPartyName call
    srPc, srCourtType, srCalls, srAll, srReturn,
    \* one request to the cron endpoint
    authPc, authMethod, authHeader, authSecret, authRuns,
    \* one notification of a change (notifyCaseUpdate, or notifyUser of the script)
    ntPc, ntImpl, ntProfile, ntType, ntChan, ntAttempts, alert_log,
    \* one Supreme Court session negotiation (getSession)
    gsPc, gsPage, gsEnv, gsTrace, gsResult,
    \* the PATCH requests of a user on the cases of the store
    ptCount, ptLast,
    \* one CourtService.getCaseStatus call, down to the eCourts endpoints
    ecPc, ecId, ecFrames, ecLog, ecResult

ctVars == <<ctPc, ctType, ctCode, ctResult>>
detVars == <<detPc, detImpl, detRow, detFresh, detAlias, detChanges>>

lkVars == <<lkPc, lkFn, lkAttempt, lkSession, lkResult,
            lkNegotiations, lkFailedNegotiations, lkSubmitted, lkRejected, lkStale, lkLast>>

svcVars == <<svcPc, svcId, svcCalls, svcResult>>

storeVars == <<cases, case_updates, notified>>

plVars == <<plImpl, plPc, plRows, plBatch, plIdx, plFresh, plChanges, plChangeIdx,
            casesChecked, updatesFound, errorCount, updated,
            plNow, plResolved, plDeadlineAt, plDelays, plOutcomes>>

envVars == <<plRun, upstream, upstreamPrev>>

srVars == <<srPc, srCourtType, srCalls, srAll, srReturn>>

authVars == <<authPc, authMethod, authHeader, authSecret, authRuns>>

ntVars == <<ntPc, ntImpl, ntProfile, ntType, ntChan, ntAttempts, alert_log>>

gsVars == <<gsPc, gsPage, gsEnv, gsTrace, gsResult>>

ptVars == <<ptCount, ptLast>>

ecVars == <<ecPc, ecId, ecFrames, ecLog, ecResult>>

lateVars == <<ptVars, ecVars>>

extraVars == <<ntVars, gsVars, lateVars>>

moreVars == <<srVars, authVars, extraVars>>

vars == <<ctVars, detVars, lkVars, svcVars, storeVars, plVars, envVars, moreVars>>

NULL == "<null>"

\* the parts of the state a specification does not exercise stay idle
CaseTypeIdle ==
    /\ ctPc = "off"
    /\ ctType = <<>>
    /\ ctCode = NULL
    /\ ctResult = NULL

DetectIdle ==
    /\ detPc = "off"
    /\ detImpl = "none"
    /\ detRow = NULL
    /\ detFresh = NULL
    /\ detAlias = FALSE
    /\ detChanges = << >>

LookupIdle ==
    /\ lkPc = "off"
    /\ lkFn = "none"
    /\ lkAttempt = 0
    /\ lkSession = NULL
    /\ lkResult = "none"
    /\ lkNegotiations = 0
    /\ lkFailedNegotiations = 0
    /\ lkSubmitted = 0
    /\ lkRejected = 0
    /\ lkStale = FALSE
    /\ lkLast = "none"

ServiceIdle ==
    /\ svcPc = "off"
    /\ svcId = NULL
    /\ svcCalls = << >>
    /\ svcResult = NULL

SearchIdle ==
    /\ srPc = "off"
    /\ srCourtType = NULL
    /\ srCalls = << >>
    /\ srAll = << >>
    /\ srReturn = << >>

AuthIdle ==
    /\ authPc = "off"
    /\ authMethod = NULL
    /\ authHeader = NULL
    /\ authSecret = NULL
    /\ authRuns = 0

NotifyIdle ==
    /\ ntPc = "off"
    /\ ntImpl = "none"
    /\ ntProfile = NULL
    /\ ntType = NULL
    /\ ntChan = << >>
    /\ ntAttempts = << >>
    /\ alert_log = << >>

SessionIdle ==
    /\ gsPc = "off"
    /\ gsPage = NULL
    /\ gsEnv = NULL
    /\ gsTrace = << >>
    /\ gsResult = NULL

PatchIdle ==
    /\ ptCount = 0
    /\ ptLast = << >>

EndpointsIdle ==
    /\ ecPc = "off"
    /\ ecId = NULL
    /\ ecFrames = << >>
    /\ ecLog = << >>
    /\ ecResult = NULL

LateIdle == PatchIdle /\ EndpointsIdle

ExtraIdle == NotifyIdle /\ SessionIdle /\ LateIdle

PipelineIdle ==
    /\ cases = << >>
    /\ case_updates = << >>
    /\ notified = << >>
    /\ plImpl = "none"
    /\ plPc = "off"
    /\ plRows = << >>
    /\ plBatch = << >>
    /\ plIdx = 0
    /\ plFresh = NULL
    /\ plChanges = << >>
    /\ plChangeIdx = 0
    /\ casesChecked = 0
    /\ updatesFound = 0
    /\ errorCount = 0
    /\ updated = 0
    /\ plNow = 0
    /\ plResolved = {}
    /\ plDeadlineAt = 0
    /\ plDelays = 0
    /\ plOutcomes = << >>
    /\ plRun = 0
    /\ upstream = {}
    /\ upstreamPrev = {}

(***************************************************************************)
(* Character strings                                                       *)
(***************************************************************************)
LowerLetters == <<"a","b","c","d","e","f","g","h","i","j","k","l","m",
                  "n","o","p","q","r","s","t","u","v","w","x","y","z">>
UpperLetters == <<"A","B","C","D","E","F","G","H","I","J","K","L","M",
                  "N","O","P","Q","R","S","T","U","V","W","X","Y","Z">>

\* String.prototype.toUpperCase on one character
UpperChar(c) ==
    IF \E i \in 1..Len(LowerLetters) : LowerLetters[i] = c
    THEN UpperLetters[CHOOSE i \in 1..Len(LowerLetters) : LowerLetters[i] = c]
    ELSE c

toUpperCase(s) == [i \in 1..Len(s) |-> UpperChar(s[i])]

\* the regex class \s, over the characters the model uses
IsSpace(c) == c = " "

RECURSIVE TrimLeft(_)
TrimLeft(s) == IF s # <<>> /\ IsSpace(Head(s)) THEN TrimLeft(Tail(s)) ELSE s

RECURSIVE TrimRight(_)
TrimRight(s) ==
    IF s # <<>> /\ IsSpace(s[Len(s)]) THEN TrimRight(SubSeq(s, 1, Len(s) - 1)) ELSE s

\* String.prototype.trim
trim(s) == TrimRight(TrimLeft(s))

\* the character class [.()\s] of the replace() calls
IsStripped(c) == c \in {".", "(", ")"} \/ IsSpace(c)

\* s.replace(/[.()\s]/g, "")
StripPunct(s) == SelectSeq(s, LAMBDA c : ~IsStripped(c))

(***************************************************************************)
(* SC case-type tables                                                     *)
(***************************************************************************)
\* SC_CASE_TYPE_MAP: code -> label
SC_CASE_TYPE_MAP ==
    ( <<"1">> :> <<"S","L","P","(","C",")">> ) @@
    ( <<"2">> :> <<"S","L","P","(","C","r","l",")">> ) @@
    ( <<"3">> :> <<"C",".","A",".">> ) @@
    ( <<"4">> :> <<"C","r","l",".","A",".">> ) @@
    ( <<"5">> :> <<"W",".","P",".","(","C",")">> ) @@
    ( <<"6">> :> <<"W",".","P",".","(","C","r","l",".",")">> ) @@
    ( <<"7">> :> <<"T",".","P",".","(","C",")">> ) @@
    ( <<"8">> :> <<"T",".","P",".","(","C","r","l",".",")">> )

\* SC_CASE_TYPE_REVERSE as the module-level loop builds it: for every code,
\* the upper-cased label and the upper-cased label without [.()\s]
SC_CASE_TYPE_REVERSE ==
    LET keys == { toUpperCase(SC_CASE_TYPE_MAP[c]) : c \in DOMAIN SC_CASE_TYPE_MAP }
                \cup
                { toUpperCase(StripPunct(SC_CASE_TYPE_MAP[c])) : c \in DOMAIN SC_CASE_TYPE_MAP }
    IN [ k \in keys |->
           CHOOSE c \in DOMAIN SC_CASE_TYPE_MAP :
               \/ k = toUpperCase(SC_CASE_TYPE_MAP[c])
               \/ k = toUpperCase(StripPunct(SC_CASE_TYPE_MAP[c])) ]

\* the local alias table of resolveCaseTypeCode
aliases ==
    ( <<"S","L","P">> :> <<"1">> ) @@
    ( <<"S","L","P","C">> :> <<"1">> ) @@
    ( <<"S","L","P","C","R","L">> :> <<"2">> ) @@
    ( <<"C","A">> :> <<"3">> ) @@
    ( <<"C","R","L","A">> :> <<"4">> ) @@
    ( <<"W","P","C">> :> <<"5">> ) @@
    ( <<"W","P","C","R","L">> :> <<"6">> ) @@
    ( <<"T","P","C">> :> <<"7">> ) @@
    ( <<"T","P","C","R","L">> :> <<"8">> ) @@
    ( <<"C","I","V","I","L"," ","A","P","P","E","A","L">> :> <<"3">> ) @@
    ( <<"C","R","I","M","I","N","A","L"," ","A","P","P","E","A","L">> :> <<"4">> ) @@
    ( <<"W","R","I","T"," ","P","E","T","I","T","I","O","N">> :> <<"5">> ) @@
    ( <<"W","R","I","T"," ","P","E","T","I","T","I","O","N"," ","C","I","V","I","L">> :> <<"5">> ) @@
    ( <<"W","R","I","T"," ","P","E","T","I","T","I","O","N"," ","C","R","I","M","I","N","A","L">> :> <<"6">> ) @@
    ( <<"T","R","A","N","S","F","E","R"," ","P","E","T","I","T","I","O","N">> :> <<"7">> ) @@
    ( <<"T","R","A","N","S","F","E","R"," ","P","E","T","I","T","I","O","N"," ","C","I","V","I","L">> :> <<"7">> ) @@
    ( <<"T","R","A","N","S","F","E","R"," ","P","E","T","I","T","I","O","N"," ","C","R","I","M","I","N","A","L">> :> <<"8">> )

\* Property names every plain object literal inherits from Object.prototype:
\* obj[key] is truthy for them although key is no own property.
ObjectPrototypeKeys ==
    { <<"c","o","n","s","t","r","u","c","t","o","r">>,
      <<"t","o","S","t","r","i","n","g">>,
      <<"v","a","l","u","e","O","f">> }

\* the truthiness of obj[key] for a plain object whose own values are
\* non-empty strings
JsHas(obj, key) == key \in DOMAIN obj \/ key \in ObjectPrototypeKeys

DefaultTypeCode == <<"5">>

\* The keys of SC_CASE_TYPE_REVERSE and of aliases are looked up with an
\* upper-cased string; every Object.prototype property name holds a lower-case
\* letter, so only own keys can match there.
resolveCaseTypeCode(caseType, caseTypeCode) ==
    LET normalized == trim(toUpperCase(caseType))
        stripped   == StripPunct(normalized)
    IN  IF caseTypeCode # NULL /\ caseTypeCode # <<>> /\ JsHas(SC_CASE_TYPE_MAP, caseTypeCode)
        THEN caseTypeCode
        ELSE IF JsHas(SC_CASE_TYPE_MAP, caseType) THEN caseType
        ELSE IF normalized \in DOMAIN SC_CASE_TYPE_REVERSE THEN SC_CASE_TYPE_REVERSE[normalized]
        ELSE IF stripped \in DOMAIN SC_CASE_TYPE_REVERSE THEN SC_CASE_TYPE_REVERSE[stripped]
        ELSE IF stripped \in DOMAIN aliases THEN aliases[stripped]
        ELSE DefaultTypeCode

(***************************************************************************)
(* Change detection                                                        *)
(* Stored rows carry the column names of the cases table, fresh snapshots  *)
(* the field names of CaseStatus, API payloads the field names the script  *)
(* reads.  A text built by a template literal is the sequence of its       *)
(* non-empty pieces; a plain value v is <<v>>.                             *)
(***************************************************************************)
\* JavaScript truthiness of a string | null | undefined
Truthy(v) == v # NULL /\ v # ""

\* a || b
Or(a, b) == IF Truthy(a) THEN a ELSE b

\* a template literal / string concatenation
Concat(pieces) == SelectSeq(pieces, LAMBDA x : x # "")

Event(type, oldValue, newValue) ==
    [type |-> type, oldValue |-> oldValue, newValue |-> newValue]

\* cron route, "Status change"
CronStatusRule(caseRow, newStatus) ==
    IF /\ Truthy(newStatus.currentStatus)
       /\ newStatus.currentStatus # caseRow.current_status
       /\ caseRow.current_status # "Unknown"
    THEN << Event("status_change", caseRow.current_status, <<newStatus.currentStatus>>) >>
    ELSE << >>

\* mutant: the hearing rule skipped once a status change was found
CronHearingRuleElseIf(caseRow, newStatus) ==
    IF /\ Truthy(newStatus.nextHearingDate)
       /\ newStatus.nextHearingDate # caseRow.next_hearing_date
       /\ ~( Truthy(newStatus.currentStatus)
             /\ newStatus.currentStatus # caseRow.current_status )
    THEN << Event("hearing_date_change", caseRow.next_hearing_date,
                  <<newStatus.nextHearingDate>>) >>
    ELSE << >>

\* cron route, "Next hearing date change"
CronHearingRule(caseRow, newStatus) ==
    IF /\ Truthy(newStatus.nextHearingDate)
       /\ newStatus.nextHearingDate # caseRow.next_hearing_date
    THEN << Event("hearing_date_change", caseRow.next_hearing_date,
                  <<newStatus.nextHearingDate>>) >>
    ELSE << >>

\* mutant: the order rule without the guard on an empty fresh date
CronOrderRuleNoGuard(caseRow, newStatus) ==
    IF newStatus.lastOrderDate # caseRow.last_order_date
    THEN << Event("new_order", caseRow.last_order_date,
                  Concat(<< Or(newStatus.lastOrderDate, "") >>)) >>
    ELSE << >>

\* cron route, "New order"
CronOrderRule(caseRow, newStatus) ==
    IF /\ Truthy(newStatus.lastOrderDate)
       /\ newStatus.lastOrderDate # caseRow.last_order_date
    THEN << Event("new_order", caseRow.last_order_date,
                  Concat(<< newStatus.lastOrderDate,
                            IF Truthy(newStatus.lastOrderSummary) THEN " - " ELSE "",
                            IF Truthy(newStatus.lastOrderSummary)
                            THEN newStatus.lastOrderSummary ELSE "" >>)) >>
    ELSE << >>

\* the changes array runCaseUpdates builds for one case (it has no judge rule)
CronDetectChanges(caseRow, newStatus) ==
    CronStatusRule(caseRow, newStatus)
        \o CronHearingRule(caseRow, newStatus)
        \o CronOrderRule(caseRow, newStatus)

\* scripts/update-cases.ts detectChanges; fresh is the raw API payload.  The
\* record's field (current_status, ...) is fixed by its updateType and left out.
ScriptStatusRule(tracked, fresh) ==
    LET newStatus == Or(fresh.status, fresh.case_status)
    IN  IF Truthy(newStatus) /\ newStatus # tracked.current_status
        THEN << Event("status_change", tracked.current_status, <<newStatus>>) >>
        ELSE << >>

ScriptHearingRule(tracked, fresh) ==
    LET newHearing == Or(fresh.next_hearing_date, fresh.next_date)
    IN  IF Truthy(newHearing) /\ newHearing # tracked.next_hearing_date
        THEN << Event("hearing_date_change", tracked.next_hearing_date, <<newHearing>>) >>
        ELSE << >>

ScriptOrderRule(tracked, fresh) ==
    LET newOrderDate == fresh.last_order_date
    IN  IF Truthy(newOrderDate) /\ newOrderDate # tracked.last_order_date
        THEN << Event("new_order", tracked.last_order_date,
                      Concat(<< "New order on ", newOrderDate, ": ",
                                Or(fresh.last_order, "") >>)) >>
        ELSE << >>

\* mutant: the judge rule without the comparison with the stored judges
ScriptJudgeRuleNoCompare(tracked, fresh) ==
    LET newJudge == Or(fresh.judge, fresh.bench)
    IN  IF Truthy(newJudge)
        THEN << Event("judge_change", tracked.judges, <<newJudge>>) >>
        ELSE << >>

ScriptJudgeRule(tracked, fresh) ==
    LET newJudge == Or(fresh.judge, fresh.bench)
    IN  IF Truthy(newJudge) /\ newJudge # tracked.judges
        THEN << Event("judge_change", tracked.judges, <<newJudge>>) >>
        ELSE << >>

detectChanges(tracked, fresh) ==
    ScriptStatusRule(tracked, fresh)
        \o ScriptHearingRule(tracked, fresh)
        \o ScriptOrderRule(tracked, fresh)
        \o ScriptJudgeRule(tracked, fresh)

\* The API payload that carries snapshot F: the upstream spells status, hearing
\* date and judge either with the first name the script reads or with its alias.
RawPayload(F, alias) ==
    [ status            |-> IF alias THEN NULL ELSE F.currentStatus,
      case_status       |-> IF alias THEN F.currentStatus ELSE NULL,
      next_hearing_date |-> IF alias THEN NULL ELSE F.nextHearingDate,
      next_date         |-> IF alias THEN F.nextHearingDate ELSE NULL,
      last_order_date   |-> F.lastOrderDate,
      last_order        |-> F.lastOrderSummary,
      judge             |-> IF alias THEN NULL ELSE F.judges,
      bench             |-> IF alias THEN F.judges ELSE NULL ]

\* the changes either pipeline computes for stored row T and fresh snapshot F
Detect(impl, T, F, alias) ==
    IF impl = "cron" THEN CronDetectChanges(T, F)
    ELSE detectChanges(T, RawPayload(F, alias))

StoredStatuses == {NULL, "Unknown", "Pending", "Disposed"}
FreshStatuses  == {NULL, "", "Pending", "Disposed"}
StoredDates    == {NULL, "2025-03-01"}
FreshDates     == {NULL, "", "2025-03-01", "2025-04-01"}
StoredJudges   == {NULL, "Justice A"}
FreshJudges    == {NULL, "Justice A", "Justice B"}
Summaries      == {NULL, "Adjourned"}

StoredRows ==
    [ current_status    : StoredStatuses,
      next_hearing_date : StoredDates,
      last_order_date   : StoredDates,
      judges            : StoredJudges ]

FreshSnapshots ==
    [ currentStatus    : FreshStatuses,
      nextHearingDate  : FreshDates,
      lastOrderDate    : FreshDates,
      lastOrderSummary : Summaries,
      judges           : FreshJudges ]

InitDetect ==
    /\ detPc = "input"
    /\ detImpl \in {"cron", "script"}
    /\ detRow \in StoredRows
    /\ detFresh \in FreshSnapshots
    /\ detAlias \in (IF detImpl = "script" THEN BOOLEAN ELSE {FALSE})
    /\ detChanges = << >>
    /\ CaseTypeIdle /\ LookupIdle /\ ServiceIdle /\ PipelineIdle /\ SearchIdle /\ AuthIdle
    /\ ExtraIdle

\* runCaseUpdates, "Detect changes"
CronDetectStep ==
    /\ detPc = "input" /\ detImpl = "cron"
    /\ detChanges' = CronDetectChanges(detRow, detFresh)
    /\ detPc' = "detected"
    /\ UNCHANGED <<detImpl, detRow, detFresh, detAlias>>
    /\ UNCHANGED <<ctVars, lkVars, svcVars, storeVars, plVars, envVars, moreVars>>

\* main, const changes = detectChanges(tracked, fresh)
ScriptDetectStep ==
    /\ detPc = "input" /\ detImpl = "script"
    /\ detChanges' = detectChanges(detRow, RawPayload(detFresh, detAlias))
    /\ detPc' = "detected"
    /\ UNCHANGED <<detImpl, detRow, detFresh, detAlias>>
    /\ UNCHANGED <<ctVars, lkVars, svcVars, storeVars, plVars, envVars, moreVars>>

NextDetect == CronDetectStep \/ ScriptDetectStep

(***************************************************************************)
(* Case-type resolution as scProvider.getCaseStatus runs it                *)
(***************************************************************************)
MaxTypeLen == 3

TypeAlphabet == {"C", "A", "c", "a", ".", " ", "3"}

RECURSIVE SeqsUpTo(_, _)
SeqsUpTo(S, n) ==
    IF n = 0 THEN {<<>>}
    ELSE LET shorter == SeqsUpTo(S, n - 1)
         IN  shorter \cup { Append(s, c) : s \in shorter, c \in S }

CivilAppealSpellings ==
    { <<"C","i","v","i","l"," ","A","p","p","e","a","l">>,
      <<"C","A">>, <<"C",".","A",".">>, <<"c","a">> }

NamedTypeInputs ==
    CivilAppealSpellings \cup
    { <<"F","r","o","b","n","i","c","a","t","e"," ","P","e","t","i","t","i","o","n">>,
      <<"c","o","n","s","t","r","u","c","t","o","r">>,
      <<"t","o","S","t","r","i","n","g">>,
      <<"S","L","P">>, <<"S","L","P","(","C",")">>, <<"s","l","p","(","c","r","l",")">>,
      <<"W","r","i","t"," ","P","e","t","i","t","i","o","n">>,
      <<"C","r","i","m","i","n","a","l"," ","A","p","p","e","a","l">>,
      <<" ","C","r","l",".","A","."," ">>,
      <<"5">>, <<"9">> }

TypeInputs == NamedTypeInputs \cup SeqsUpTo(TypeAlphabet, MaxTypeLen)

TypeCodeInputs == {NULL, <<>>, <<"3">>, <<"9">>}

InitCaseType ==
    /\ ctPc = "start"
    /\ ctType \in TypeInputs
    /\ ctCode \in TypeCodeInputs
    /\ ctResult = NULL
    /\ DetectIdle /\ LookupIdle /\ ServiceIdle /\ PipelineIdle /\ SearchIdle /\ AuthIdle
    /\ ExtraIdle

\* scProvider.getCaseStatus, up to the resolved code
ScResolveType ==
    /\ ctPc = "start"
    /\ ctResult' = resolveCaseTypeCode(ctType, ctCode)
    /\ ctPc' = "resolved"
    /\ UNCHANGED <<ctType, ctCode>>
    /\ UNCHANGED <<detVars, lkVars, svcVars, storeVars, plVars, envVars, moreVars>>

\* scProvider.getCaseStatus hands the resolved code to fetchCaseStatusWithRetry
ScStartLookup ==
    /\ ctPc = "resolved"
    /\ ctPc' = "lookup"
    /\ UNCHANGED <<ctType, ctCode, ctResult>>
    /\ UNCHANGED <<detVars, lkVars, svcVars, storeVars, plVars, envVars, moreVars>>

NextCaseType == ScResolveType \/ ScStartLookup

(***************************************************************************)
(* Retry-bounded provider lookups                                          *)
(*   SC_STATUS : fetchCaseStatusWithRetry (sc-scraper)                     *)
(*   DC_NUMBER, HC_NUMBER, DC_CNR, HC_CNR : fetchDistrictCaseByNumber,     *)
(*   fetchHCCaseByNumber, fetchDistrictCaseByCNR, fetchHCCaseByCNR         *)
(* The upstream is the environment: each negotiation meets one scenario    *)
(* (the first check of getSession / getEcourtsSession that decides it) and *)
(* each submitted request one response.                                    *)
(***************************************************************************)
MAX_CAPTCHA_RETRIES == 3

MAX_CAPTCHA_RETRIES_EC == 3

\* mutant: a lookup without the retry
ShouldRetryNever(attempt, max) == FALSE

\* attempt < MAX_CAPTCHA_RETRIES, the condition of every retry
ShouldRetry(attempt, max) == attempt < max

EcourtsLookups == {"DC_NUMBER", "HC_NUMBER", "DC_CNR", "HC_CNR"}

\* the base URL an eCourts lookup negotiates with and posts to
EcourtsBase(fn) == IF fn \in {"DC_NUMBER", "DC_CNR"} THEN "ECOURTS_DC_BASE" ELSE "ECOURTS_HC_BASE"

ScSessionScenarios ==
    { "page_error", "no_scid", "no_token", "html_answer", "no_image_url",
      "image_error", "vision_answer", "vision_no_answer", "vision_unconfigured" }

\* getSession: a session, or a thrown error.  imageFetched / solverCalled say
\* whether the CAPTCHA image was downloaded and the vision solver called.
getSession(scenario, sid) ==
    CASE scenario \in {"page_error", "no_scid", "no_token"} ->
            [ok |-> FALSE, session |-> NULL, imageFetched |-> FALSE, solverCalled |-> FALSE]
      [] scenario = "html_answer" ->
            [ok |-> TRUE, session |-> [sid |-> sid, captcha |-> "html"],
             imageFetched |-> FALSE, solverCalled |-> FALSE]
      [] scenario \in {"no_image_url", "image_error"} ->
            [ok |-> FALSE, session |-> NULL,
             imageFetched |-> (scenario = "image_error"), solverCalled |-> FALSE]
      [] scenario = "vision_answer" ->
            [ok |-> TRUE, session |-> [sid |-> sid, captcha |-> "vision"],
             imageFetched |-> TRUE, solverCalled |-> TRUE]
      [] scenario = "vision_no_answer" ->
            [ok |-> FALSE, session |-> NULL, imageFetched |-> TRUE, solverCalled |-> TRUE]
      [] scenario = "vision_unconfigured" ->
            [ok |-> FALSE, session |-> NULL, imageFetched |-> TRUE, solverCalled |-> FALSE]

EcSessionScenarios ==
    { "page_error", "no_image", "image_error", "vision_unconfigured",
      "vision_no_answer", "vision_answer" }

\* getEcourtsSession: null when the page fetch fails or throws; otherwise a
\* session, with an empty captchaValue when no answer could be obtained
getEcourtsSession(scenario, sid) ==
    CASE scenario = "page_error" ->
            [ok |-> FALSE, session |-> NULL, imageFetched |-> FALSE, solverCalled |-> FALSE]
      [] scenario = "no_image" ->
            [ok |-> TRUE, session |-> [sid |-> sid, captcha |-> ""],
             imageFetched |-> FALSE, solverCalled |-> FALSE]
      [] scenario \in {"image_error", "vision_unconfigured"} ->
            [ok |-> TRUE, session |-> [sid |-> sid, captcha |-> ""],
             imageFetched |-> TRUE, solverCalled |-> FALSE]
      [] scenario = "vision_no_answer" ->
            [ok |-> TRUE, session |-> [sid |-> sid, captcha |-> ""],
             imageFetched |-> TRUE, solverCalled |-> TRUE]
      [] scenario = "vision_answer" ->
            [ok |-> TRUE, session |-> [sid |-> sid, captcha |-> "vision"],
             imageFetched |-> TRUE, solverCalled |-> TRUE]

\* what the SC ajax endpoint can answer
ScResponses ==
    { "network_error", "http_error", "captcha_rejected", "other_failure",
      "no_results_html", "unparsable", "case_found" }

\* what index.php of an eCourts service can answer
EcResponses ==
    { "network_error", "http_error", "invalid_captcha", "captcha_required",
      "record_not_found", "empty", "case_found" }

\* parseEcourtsCaseHtml, as null / snapshot
parseEcourtsCaseHtml(resp) ==
    IF resp \in {"empty", "invalid_captcha", "captcha_required", "record_not_found"}
    THEN "null" ELSE "snapshot"

InitLookup ==
    /\ lkPc = "loop"
    /\ lkFn \in {"SC_STATUS"} \cup EcourtsLookups
    /\ lkAttempt = 1
    /\ lkSession = NULL
    /\ lkResult = "pending"
    /\ lkNegotiations = 0
    /\ lkFailedNegotiations = 0
    /\ lkSubmitted = 0
    /\ lkRejected = 0
    /\ lkStale = FALSE
    /\ lkLast = "start"
    /\ CaseTypeIdle /\ DetectIdle /\ ServiceIdle /\ PipelineIdle /\ SearchIdle /\ AuthIdle
    /\ ExtraIdle

LookupReturn(result, last) ==
    /\ lkPc' = "done"
    /\ lkResult' = result
    /\ lkLast' = last
    /\ UNCHANGED lkAttempt

\* `continue`: the next iteration of the for loop
LookupContinue(last) ==
    /\ lkPc' = "loop"
    /\ lkAttempt' = lkAttempt + 1
    /\ lkLast' = last
    /\ UNCHANGED lkResult

\* the catch block of fetchCaseStatusWithRetry
ScCatch(last) ==
    IF ShouldRetry(lkAttempt, MAX_CAPTCHA_RETRIES)
    THEN LookupContinue(last)
    ELSE LookupReturn("throw", last)

\* fetchCaseStatusWithRetry: const session = await getSession()
ScNegotiate ==
    /\ lkPc = "loop" /\ lkFn = "SC_STATUS"
    /\ lkAttempt <= MAX_CAPTCHA_RETRIES
    /\ \E scenario \in ScSessionScenarios :
         LET r == getSession(scenario, lkNegotiations + 1)
         IN  /\ lkNegotiations' = lkNegotiations + 1
             /\ IF r.ok
                THEN /\ lkSession' = r.session
                     /\ lkPc' = "submit"
                     /\ lkLast' = "session"
                     /\ UNCHANGED <<lkAttempt, lkResult, lkFailedNegotiations>>
                ELSE /\ lkSession' = NULL
                     /\ lkFailedNegotiations' = lkFailedNegotiations + 1
                     /\ ScCatch("session_error")
    /\ UNCHANGED <<lkFn, lkSubmitted, lkRejected, lkStale>>
    /\ UNCHANGED <<ctVars, detVars, svcVars, storeVars, plVars, envVars, moreVars>>

\* fetchCaseStatusWithRetry: the ajax request and the classification of its answer
ScSubmit ==
    /\ lkPc = "submit" /\ lkFn = "SC_STATUS"
    /\ lkSubmitted' = lkSubmitted + 1
    /\ lkStale' = (lkStale \/ lkSession.sid # lkNegotiations)
    /\ \E resp \in ScResponses :
         /\ lkRejected' = lkRejected + (IF resp = "captcha_rejected" THEN 1 ELSE 0)
         /\ CASE resp \in {"network_error", "http_error"} -> ScCatch("transport_error")
              [] resp = "captcha_rejected" ->
                    IF ShouldRetry(lkAttempt, MAX_CAPTCHA_RETRIES)
                    THEN LookupContinue("captcha_rejected")
                    ELSE LookupReturn("null", "captcha_rejected")
              [] resp = "other_failure" -> LookupReturn("null", "no_record")
              [] resp = "no_results_html" -> LookupReturn("null", "no_record")
              [] resp = "unparsable" -> LookupReturn("null", "no_record")
              [] resp = "case_found" -> LookupReturn("snapshot", "case_found")
    /\ UNCHANGED <<lkFn, lkSession, lkNegotiations, lkFailedNegotiations>>
    /\ UNCHANGED <<ctVars, detVars, svcVars, storeVars, plVars, envVars, moreVars>>

\* fetch...: const session = await getEcourtsSession(base); if (!session) return null
EcNegotiate ==
    /\ lkPc = "loop" /\ lkFn \in EcourtsLookups
    /\ lkAttempt <= MAX_CAPTCHA_RETRIES_EC
    /\ \E scenario \in EcSessionScenarios :
         LET r == getEcourtsSession(scenario, lkNegotiations + 1)
         IN  /\ lkNegotiations' = lkNegotiations + 1
             /\ IF r.ok
                THEN /\ lkSession' = r.session
                     /\ lkPc' = "submit"
                     /\ lkLast' = "session"
                     /\ UNCHANGED <<lkAttempt, lkResult, lkFailedNegotiations>>
                ELSE /\ lkSession' = NULL
                     /\ lkFailedNegotiations' = lkFailedNegotiations + 1
                     /\ LookupReturn("null", "session_error")
    /\ UNCHANGED <<lkFn, lkSubmitted, lkRejected, lkStale>>
    /\ UNCHANGED <<ctVars, detVars, svcVars, storeVars, plVars, envVars, moreVars>>

\* fetch...: the POST to index.php and the classification of its answer
EcSubmit ==
    /\ lkPc = "submit" /\ lkFn \in EcourtsLookups
    /\ lkSubmitted' = lkSubmitted + 1
    /\ lkStale' = (lkStale \/ lkSession.sid # lkNegotiations)
    /\ \E resp \in EcResponses :
         /\ lkRejected' = lkRejected + (IF resp = "invalid_captcha" THEN 1 ELSE 0)
         /\ CASE resp = "network_error" ->
                    IF ShouldRetry(lkAttempt, MAX_CAPTCHA_RETRIES_EC)
                    THEN LookupContinue("transport_error")
                    ELSE LookupReturn("null", "transport_error")
              [] resp = "http_error" -> LookupReturn("null", "transport_error")
              [] resp = "invalid_captcha" /\ ShouldRetry(lkAttempt, MAX_CAPTCHA_RETRIES_EC) ->
                    LookupContinue("captcha_rejected")
              [] OTHER ->
                    LookupReturn(parseEcourtsCaseHtml(resp),
                                 IF resp = "invalid_captcha" THEN "captcha_rejected"
                                 ELSE IF resp = "case_found" THEN "case_found"
                                 ELSE "no_record")
    /\ UNCHANGED <<lkFn, lkSession, lkNegotiations, lkFailedNegotiations>>
    /\ UNCHANGED <<ctVars, detVars, svcVars, storeVars, plVars, envVars, moreVars>>

NextLookup == ScNegotiate \/ ScSubmit \/ EcNegotiate \/ EcSubmit

(***************************************************************************)
(* CourtService.getCaseStatus                                              *)
(* scProvider and ecourtsProvider are CourtApiProvider objects: a call     *)
(* resolves to a snapshot or to null, or rejects (throws).                 *)
(***************************************************************************)
CourtTypes == {"SC", "HC", "DC", "NCLT", "CF"}

CnrNumbers == {NULL, "", "MHAU010000012025"}

ProviderOutcomes == {"throw", "null", "snapshot"}

SvcPending == [kind |-> "pending", from |-> "none"]

InitService ==
    /\ svcPc = "sc"
    /\ svcId \in [courtType : CourtTypes, cnrNumber : CnrNumbers]
    /\ svcCalls = << >>
    /\ svcResult = SvcPending
    /\ CaseTypeIdle /\ DetectIdle /\ LookupIdle /\ PipelineIdle /\ SearchIdle /\ AuthIdle
    /\ ExtraIdle

\* mutant: a provider call outside any try block
Uncaught(outcome) == outcome

\* try { ... } catch (error) { console.error(...) }: a throw ends the block
\* like a null result
Caught(outcome) == IF outcome = "throw" THEN "null" ELSE outcome

\* one provider call: log it, return its snapshot, propagate an uncaught
\* throw, or fall through to the next block
SvcCall(call, outcome, nextPc) ==
    /\ svcCalls' = Append(svcCalls, [call |-> call, outcome |-> outcome])
    /\ CASE Caught(outcome) = "snapshot" ->
              /\ svcResult' = [kind |-> "snapshot", from |-> call]
              /\ svcPc' = "done"
         [] Caught(outcome) = "throw" ->
              /\ svcResult' = [kind |-> "throw", from |-> call]
              /\ svcPc' = "done"
         [] OTHER ->
              /\ svcPc' = nextPc
              /\ UNCHANGED svcResult
    /\ UNCHANGED svcId

\* if (identifier.courtType === "SC") { try { scProvider.getCaseStatus } ... }
SvcScStatus ==
    /\ svcPc = "sc" /\ svcId.courtType = "SC"
    /\ \E outcome \in ProviderOutcomes : SvcCall("sc.getCaseStatus", outcome, "ecourts")
    /\ UNCHANGED <<ctVars, detVars, lkVars, storeVars, plVars, envVars, moreVars>>

\* try { ecourtsProvider.getCaseStatus } ...
SvcEcourtsStatus ==
    /\ \/ svcPc = "ecourts"
       \/ svcPc = "sc" /\ svcId.courtType # "SC"
    /\ \E outcome \in ProviderOutcomes :
         SvcCall("ecourts.getCaseStatus", outcome, "cnr")
    /\ UNCHANGED <<ctVars, detVars, lkVars, storeVars, plVars, envVars, moreVars>>

\* if (identifier.cnrNumber) { try { getCaseByCNR of the SC or the eCourts provider } ... }
SvcCnrLookup ==
    /\ svcPc = "cnr" /\ Truthy(svcId.cnrNumber)
    /\ \E outcome \in ProviderOutcomes :
         SvcCall(IF svcId.courtType = "SC" THEN "sc.getCaseByCNR"
                 ELSE "ecourts.getCaseByCNR", outcome, "end")
    /\ UNCHANGED <<ctVars, detVars, lkVars, storeVars, plVars, envVars, moreVars>>

\* return null
SvcReturnNull ==
    /\ \/ svcPc = "end"
       \/ svcPc = "cnr" /\ ~Truthy(svcId.cnrNumber)
    /\ svcResult' = [kind |-> "null", from |-> "none"]
    /\ svcPc' = "done"
    /\ UNCHANGED <<svcId, svcCalls>>
    /\ UNCHANGED <<ctVars, detVars, lkVars, storeVars, plVars, envVars, moreVars>>

NextService == SvcScStatus \/ SvcEcourtsStatus \/ SvcCnrLookup \/ SvcReturnNull

(***************************************************************************)
(* The update pipeline: runCaseUpdates of the cron route and main of       *)
(* scripts/update-cases.ts, one run over the active cases.                 *)
(* Timestamps are readings of the clock plNow; 0 is a null timestamp, so   *)
(* ascending order with nulls first is ascending order of the numbers.     *)
(* respondent is written by the same expression as petitioner and is left  *)
(* out of the rows.                                                        *)
(***************************************************************************)
MaxCases == 2

CaseIds == 1 .. MaxCases

\* a case that was added and never checked
NewRow ==
    [ is_active |-> TRUE, current_status |-> "Unknown", next_hearing_date |-> NULL,
      last_order_date |-> NULL, last_order_summary |-> NULL, petitioner |-> NULL,
      judges |-> NULL, raw_data |-> NULL, last_checked_at |-> 0, last_changed_at |-> 0 ]

PendingRow ==
    [ is_active |-> TRUE, current_status |-> "Pending", next_hearing_date |-> NULL,
      last_order_date |-> NULL, last_order_summary |-> NULL, petitioner |-> "A",
      judges |-> NULL, raw_data |-> "raw0", last_checked_at |-> 1, last_changed_at |-> 1 ]

ListedRow ==
    [ is_active |-> TRUE, current_status |-> "Pending", next_hearing_date |-> "2025-03-01",
      last_order_date |-> "2025-03-01", last_order_summary |-> NULL, petitioner |-> "A",
      judges |-> "Justice A", raw_data |-> "raw0", last_checked_at |-> 2, last_changed_at |-> 1 ]

InitRows ==
    { [r EXCEPT !.is_active = a] : r \in {NewRow, PendingRow, ListedRow}, a \in BOOLEAN }

\* CaseStatus objects the court portals may answer with
PipelineSnapshots ==
    { [ currentStatus |-> "Pending", nextHearingDate |-> NULL, lastOrderDate |-> NULL,
        lastOrderSummary |-> NULL, judges |-> NULL, petitioner |-> "B", rawData |-> "raw1" ],
      [ currentStatus |-> "Pending", nextHearingDate |-> "2025-03-01",
        lastOrderDate |-> "2025-03-01", lastOrderSummary |-> "Adjourned",
        judges |-> "Justice A", petitioner |-> "A", rawData |-> "raw2" ],
      [ currentStatus |-> "Disposed", nextHearingDate |-> "2025-04-01",
        lastOrderDate |-> NULL, lastOrderSummary |-> NULL,
        judges |-> "Justice B", petitioner |-> "", rawData |-> "raw3" ] }

\* the body fetchCaseFromAPI parses for snapshot F
PipelinePayload(F) ==
    [ status |-> F.currentStatus, case_status |-> NULL,
      next_hearing_date |-> F.nextHearingDate, next_date |-> NULL,
      last_order_date |-> F.lastOrderDate, last_order |-> F.lastOrderSummary,
      judge |-> F.judges, bench |-> NULL,
      petitioner |-> F.petitioner, raw |-> F.rawData ]

ActiveIds(store) == { id \in DOMAIN store : store[id].is_active }

Orderings(S) ==
    { s \in [1 .. Cardinality(S) -> S] : \A i, j \in DOMAIN s : i # j => s[i] # s[j] }

\* .eq("is_active", true).order("last_checked_at", ascending, nullsFirst)
OrderedBatches(store) ==
    { s \in Orderings(ActiveIds(store)) :
        \A i, j \in DOMAIN s :
            i < j => store[s[i]].last_checked_at <= store[s[j]].last_checked_at }

\* the case the loop is at, and its row as the run read it
CurrentId == plBatch[plIdx]
CurrentRow == plRows[CurrentId]

InLoop == plPc = "loop" /\ plIdx <= Len(plBatch)

\* notifyUser: label = updateType.replace(/_/g, " ").toUpperCase(), the
\* subject of the alert_log rows it writes
ScriptLabel(updateType) ==
    CASE updateType = "status_change"       -> "STATUS CHANGE"
      [] updateType = "hearing_date_change" -> "HEARING DATE CHANGE"
      [] updateType = "new_order"           -> "NEW ORDER"
      [] updateType = "judge_change"        -> "JUDGE CHANGE"
      [] updateType = "listing"             -> "LISTING"
      [] updateType = "hearing_reminder"    -> "HEARING REMINDER"

\* notifyCaseUpdate: subject: params.updateType
CronSubject(updateType) == updateType

\* .like("subject", "%HEARING REMINDER%") over the subjects above (the match
\* is case-sensitive)
LikeHearingReminder(subject) == subject \in {"HEARING REMINDER"}

\* one call of notifyCaseUpdate / notifyUser, with the subject its alert_log
\* rows carry
Notification(impl, id, change) ==
    [ case_id |-> id, updateType |-> change.type, newValue |-> change.newValue,
      subject |-> IF impl = "cron" THEN CronSubject(change.type)
                  ELSE ScriptLabel(change.type) ]

CaseUpdate(id, change) ==
    [ case_id |-> id, update_type |-> change.type,
      old_value |-> change.oldValue, new_value |-> change.newValue ]

InitPipeline ==
    /\ cases \in [CaseIds -> InitRows]
    /\ case_updates = << >>
    /\ notified = << >>
    /\ plImpl \in {"cron", "script"}
    /\ plPc = "start"
    /\ plRows = << >>
    /\ plBatch = << >>
    /\ plIdx = 0
    /\ plFresh = NULL
    /\ plChanges = << >>
    /\ plChangeIdx = 0
    /\ casesChecked = 0
    /\ updatesFound = 0
    /\ errorCount = 0
    /\ updated = 0
    /\ plNow = 3
    /\ plResolved = {}
    /\ plDeadlineAt = 0
    /\ plDelays = 0
    /\ plOutcomes = << >>
    /\ plRun = 1
    /\ upstream = PipelineSnapshots
    /\ upstreamPrev = {}
    /\ CaseTypeIdle /\ DetectIdle /\ LookupIdle /\ ServiceIdle /\ SearchIdle /\ AuthIdle
    /\ ExtraIdle

OtherParts == <<ctVars, detVars, lkVars, svcVars, moreVars>>

\* the initial read of the active cases fails: 500 / process.exit(1)
PlFetchFailed ==
    /\ plPc = "start"
    /\ plPc' = "failed"
    /\ UNCHANGED <<plImpl, plRows, plBatch, plIdx, plFresh, plChanges, plChangeIdx,
                   casesChecked, updatesFound, errorCount, updated,
                   plNow, plResolved, plDeadlineAt, plDelays, plOutcomes>>
    /\ UNCHANGED <<storeVars, OtherParts, envVars>>

\* the initial read succeeds; with no active case the route returns at once
\* and the script goes to checkUpcomingHearings
PlFetchCases ==
    /\ plPc = "start"
    /\ \E b \in OrderedBatches(cases) :
          /\ plBatch' = b
          /\ plPc' = IF Len(b) > 0 THEN "loop"
                     ELSE IF plImpl = "cron" THEN "done" ELSE "sweep"
    /\ plRows' = cases
    /\ plIdx' = 1
    /\ UNCHANGED <<plImpl, plFresh, plChanges, plChangeIdx,
                   casesChecked, updatesFound, errorCount, updated,
                   plNow, plResolved, plDeadlineAt, plDelays, plOutcomes>>
    /\ UNCHANGED <<storeVars, OtherParts, envVars>>

\* the columns runCaseUpdates writes for a non-null snapshot
CronWrite(stored, caseRow, newStatus, changes, now) ==
    [ stored EXCEPT
        !.current_status     = Or(newStatus.currentStatus, caseRow.current_status),
        !.next_hearing_date  = Or(newStatus.nextHearingDate, caseRow.next_hearing_date),
        !.last_order_date    = Or(newStatus.lastOrderDate, caseRow.last_order_date),
        !.last_order_summary = Or(newStatus.lastOrderSummary, caseRow.last_order_summary),
        !.petitioner         = Or(newStatus.petitioner, caseRow.petitioner),
        !.judges             = Or(newStatus.judges, caseRow.judges),
        !.raw_data           = Or(newStatus.rawData, caseRow.raw_data),
        !.last_checked_at    = now,
        !.last_changed_at    = IF Len(changes) > 0 THEN now ELSE @ ]

\* mutant: an expired deadline skips the current case only
CronDeadlineContinue ==
    /\ plImpl = "cron" /\ InLoop
    /\ plDeadlineAt' = plIdx
    /\ plIdx' = plIdx + 1
    /\ UNCHANGED <<plImpl, plPc, plRows, plBatch, plFresh, plChanges, plChangeIdx,
                   casesChecked, updatesFound, errorCount, updated,
                   plNow, plResolved, plDelays, plOutcomes>>
    /\ UNCHANGED <<storeVars, OtherParts, envVars>>

\* Date.now() - startTime > 55000: break
CronDeadlineBreak ==
    /\ plImpl = "cron" /\ InLoop
    /\ plDeadlineAt' = plIdx
    /\ plPc' = "sweep"
    /\ UNCHANGED <<plImpl, plRows, plBatch, plIdx, plFresh, plChanges, plChangeIdx,
                   casesChecked, updatesFound, errorCount, updated,
                   plNow, plResolved, plDelays, plOutcomes>>
    /\ UNCHANGED <<storeVars, OtherParts, envVars>>

\* mutant: the null path without the write of last_checked_at
CronResolveNullNoTouch ==
    /\ plImpl = "cron" /\ InLoop
    /\ plOutcomes' = Append(plOutcomes, "null")
    /\ plResolved' = plResolved \cup {CurrentId}
    /\ casesChecked' = casesChecked + 1
    /\ plIdx' = plIdx + 1
    /\ plNow' = plNow + 1
    /\ UNCHANGED <<plImpl, plPc, plRows, plBatch, plFresh, plChanges, plChangeIdx,
                   updatesFound, errorCount, updated, plDeadlineAt, plDelays>>
    /\ UNCHANGED <<storeVars, OtherParts, envVars>>

\* getCaseStatus resolves to null: only last_checked_at is written, the case
\* is counted, and the loop continues without the delay
CronResolveNull ==
    /\ plImpl = "cron" /\ InLoop
    /\ plOutcomes' = Append(plOutcomes, "null")
    /\ plResolved' = plResolved \cup {CurrentId}
    /\ cases' = [cases EXCEPT ![CurrentId].last_checked_at = plNow]
    /\ casesChecked' = casesChecked + 1
    /\ plIdx' = plIdx + 1
    /\ plNow' = plNow + 1
    /\ UNCHANGED <<plImpl, plPc, plRows, plBatch, plFresh, plChanges, plChangeIdx,
                   updatesFound, errorCount, updated, plDeadlineAt, plDelays>>
    /\ UNCHANGED <<case_updates, notified, OtherParts, envVars>>

\* getCaseStatus resolves to a snapshot: the changes array is built
CronResolveSnapshot ==
    /\ plImpl = "cron" /\ InLoop
    /\ plOutcomes' = Append(plOutcomes, "snapshot")
    /\ \E F \in upstream :
          /\ plFresh' = F
          /\ plChanges' = CronDetectChanges(CurrentRow, F)
    /\ plResolved' = plResolved \cup {CurrentId}
    /\ plPc' = "update"
    /\ UNCHANGED <<plImpl, plRows, plBatch, plIdx, plChangeIdx,
                   casesChecked, updatesFound, errorCount, updated,
                   plNow, plDeadlineAt, plDelays>>
    /\ UNCHANGED <<storeVars, OtherParts, envVars>>

\* "Update the case record"
CronUpdate ==
    /\ plImpl = "cron" /\ plPc = "update"
    /\ cases' = [cases EXCEPT ![CurrentId] =
                    CronWrite(@, CurrentRow, plFresh, plChanges, plNow)]
    /\ plPc' = "changes"
    /\ plChangeIdx' = 1
    /\ UNCHANGED <<plImpl, plRows, plBatch, plIdx, plFresh, plChanges,
                   casesChecked, updatesFound, errorCount, updated,
                   plNow, plResolved, plDeadlineAt, plDelays, plOutcomes>>
    /\ UNCHANGED <<case_updates, notified, OtherParts, envVars>>

\* one turn of "for (const change of changes)": insert, then notify
CronProcessChange ==
    /\ plImpl = "cron" /\ plPc = "changes" /\ plChangeIdx <= Len(plChanges)
    /\ updatesFound' = updatesFound + 1
    /\ case_updates' = Append(case_updates, CaseUpdate(CurrentId, plChanges[plChangeIdx]))
    /\ notified' = Append(notified, Notification(plImpl, CurrentId, plChanges[plChangeIdx]))
    /\ plChangeIdx' = plChangeIdx + 1
    /\ UNCHANGED <<plImpl, plPc, plRows, plBatch, plIdx, plFresh, plChanges,
                   casesChecked, errorCount, updated,
                   plNow, plResolved, plDeadlineAt, plDelays, plOutcomes>>
    /\ UNCHANGED <<cases, OtherParts, envVars>>

\* the same turn when notifyCaseUpdate rejects: the catch block counts the
\* error and the loop goes to the next case
CronProcessChangeThrows ==
    /\ plImpl = "cron" /\ plPc = "changes" /\ plChangeIdx <= Len(plChanges)
    /\ plOutcomes' = [plOutcomes EXCEPT ![plIdx] = "throw"]
    /\ updatesFound' = updatesFound + 1
    /\ case_updates' = Append(case_updates, CaseUpdate(CurrentId, plChanges[plChangeIdx]))
    /\ errorCount' = errorCount + 1
    /\ plPc' = "loop"
    /\ plIdx' = plIdx + 1
    /\ plNow' = plNow + 1
    /\ UNCHANGED <<plImpl, plRows, plBatch, plFresh, plChanges, plChangeIdx,
                   casesChecked, updated, plResolved, plDeadlineAt, plDelays>>
    /\ UNCHANGED <<cases, notified, OtherParts, envVars>>

\* casesChecked++ and the one-second delay
CronFinishCase ==
    /\ plImpl = "cron" /\ plPc = "changes" /\ plChangeIdx > Len(plChanges)
    /\ casesChecked' = casesChecked + 1
    /\ plDelays' = plDelays + 1
    /\ plPc' = "loop"
    /\ plIdx' = plIdx + 1
    /\ plNow' = plNow + 1
    /\ UNCHANGED <<plImpl, plRows, plBatch, plFresh, plChanges, plChangeIdx,
                   updatesFound, errorCount, updated, plResolved, plDeadlineAt, plOutcomes>>
    /\ UNCHANGED <<storeVars, OtherParts, envVars>>

\* ISO dates compare as their day numbers
DayNumber(d) ==
    CASE d = "2025-03-01" -> 60
      [] d = "2025-04-01" -> 91

TodayStr == "2025-03-01"

\* .eq("is_active", true).gte("next_hearing_date", today).lte(.., tomorrow)
UpcomingIds(store) ==
    { id \in ActiveIds(store) :
        /\ Truthy(store[id].next_hearing_date)
        /\ DayNumber(store[id].next_hearing_date) >= DayNumber(TodayStr)
        /\ DayNumber(store[id].next_hearing_date) <= DayNumber(TodayStr) + 1 }

\* the change object both sweeps hand to the notifier
Reminder(store, id, type) ==
    [ type |-> type, oldValue |-> NULL,
      newValue |-> <<"Hearing scheduled for ", store[id].next_hearing_date>> ]

RECURSIVE Reminders(_, _, _)
Reminders(order, store, impl) ==
    IF order = << >> THEN << >>
    ELSE << Notification(impl, Head(order),
                Reminder(store, Head(order),
                         IF impl = "cron" THEN "hearing_reminder" ELSE "listing")) >>
         \o Reminders(Tail(order), store, impl)

\* the loop is over (or was left): a hearing_reminder for every active case
\* heard today or tomorrow, then the summary
CronSweep ==
    /\ plImpl = "cron"
    /\ plPc = "sweep" \/ (plPc = "loop" /\ plIdx > Len(plBatch))
    /\ \E order \in Orderings(UpcomingIds(cases)) :
          notified' = notified \o Reminders(order, cases, "cron")
    /\ plPc' = "done"
    /\ UNCHANGED <<plImpl, plRows, plBatch, plIdx, plFresh, plChanges, plChangeIdx,
                   casesChecked, updatesFound, errorCount, updated,
                   plNow, plResolved, plDeadlineAt, plDelays, plOutcomes>>
    /\ UNCHANGED <<cases, case_updates, OtherParts, envVars>>

\* the sweep's await notifyCaseUpdate is outside every try block: when it
\* rejects, runCaseUpdates rejects and the route answers with a server error
CronSweepThrows ==
    /\ plImpl = "cron"
    /\ plPc = "sweep" \/ (plPc = "loop" /\ plIdx > Len(plBatch))
    /\ \E order \in Orderings(UpcomingIds(cases)) :
          \E sent \in 0 .. (Len(order) - 1) :
              notified' = notified \o Reminders(SubSeq(order, 1, sent), cases, "cron")
    /\ plPc' = "crashed"
    /\ UNCHANGED <<plImpl, plRows, plBatch, plIdx, plFresh, plChanges, plChangeIdx,
                   casesChecked, updatesFound, errorCount, updated,
                   plNow, plResolved, plDeadlineAt, plDelays, plOutcomes>>
    /\ UNCHANGED <<cases, case_updates, OtherParts, envVars>>

\* the columns main writes when detectChanges found something
ScriptWrite(stored, tracked, f, now) ==
    [ stored EXCEPT
        !.current_status     = Or(Or(f.status, f.case_status), tracked.current_status),
        !.next_hearing_date  = Or(Or(f.next_hearing_date, f.next_date),
                                  tracked.next_hearing_date),
        !.last_order_date    = Or(f.last_order_date, tracked.last_order_date),
        !.last_order_summary = Or(f.last_order, tracked.last_order_summary),
        !.petitioner         = Or(f.petitioner, tracked.petitioner),
        !.judges             = Or(Or(f.judge, f.bench), tracked.judges),
        !.raw_data           = f.raw,
        !.last_checked_at    = now,
        !.last_changed_at    = now ]

\* mutant: the exception leaves main and the process exits with 1
ScriptFetchThrowsFatal ==
    /\ plImpl = "script" /\ InLoop
    /\ plOutcomes' = Append(plOutcomes, "throw")
    /\ plResolved' = plResolved \cup {CurrentId}
    /\ plPc' = "failed"
    /\ UNCHANGED <<plImpl, plRows, plBatch, plIdx, plFresh, plChanges, plChangeIdx,
                   casesChecked, updatesFound, errorCount, updated,
                   plNow, plDeadlineAt, plDelays>>
    /\ UNCHANGED <<storeVars, OtherParts, envVars>>

\* fetchCaseFromAPI throws (response not ok, network, timeout): errors++ in
\* the catch block
ScriptFetchThrows ==
    /\ plImpl = "script" /\ InLoop
    /\ plOutcomes' = Append(plOutcomes, "throw")
    /\ plResolved' = plResolved \cup {CurrentId}
    /\ errorCount' = errorCount + 1
    /\ plIdx' = plIdx + 1
    /\ plNow' = plNow + 1
    /\ UNCHANGED <<plImpl, plPc, plRows, plBatch, plFresh, plChanges, plChangeIdx,
                   casesChecked, updatesFound, updated, plDeadlineAt, plDelays>>
    /\ UNCHANGED <<storeVars, OtherParts, envVars>>

\* a null body or one with an error field: errors++; continue
ScriptFetchNull ==
    /\ plImpl = "script" /\ InLoop
    /\ plOutcomes' = Append(plOutcomes, "null")
    /\ plResolved' = plResolved \cup {CurrentId}
    /\ errorCount' = errorCount + 1
    /\ plIdx' = plIdx + 1
    /\ plNow' = plNow + 1
    /\ plFresh' = NULL
    /\ UNCHANGED <<plImpl, plPc, plRows, plBatch, plChanges, plChangeIdx,
                   casesChecked, updatesFound, updated, plDeadlineAt, plDelays>>
    /\ UNCHANGED <<storeVars, OtherParts, envVars>>

\* a body: const changes = detectChanges(tracked, fresh)
ScriptFetchFresh ==
    /\ plImpl = "script" /\ InLoop
    /\ plOutcomes' = Append(plOutcomes, "snapshot")
    /\ \E F \in upstream :
          /\ plFresh' = F
          /\ plChanges' = detectChanges(CurrentRow, PipelinePayload(F))
          /\ plPc' = IF Len(detectChanges(CurrentRow, PipelinePayload(F))) > 0
                     THEN "changes" ELSE "touch"
    /\ plResolved' = plResolved \cup {CurrentId}
    /\ plChangeIdx' = 1
    /\ UNCHANGED <<plImpl, plRows, plBatch, plIdx,
                   casesChecked, updatesFound, errorCount, updated,
                   plNow, plDeadlineAt, plDelays>>
    /\ UNCHANGED <<storeVars, OtherParts, envVars>>

\* one turn of "for (const change of changes)": insert, then notifyUser
ScriptProcessChange ==
    /\ plImpl = "script" /\ plPc = "changes" /\ plChangeIdx <= Len(plChanges)
    /\ case_updates' = Append(case_updates, CaseUpdate(CurrentId, plChanges[plChangeIdx]))
    /\ notified' = Append(notified, Notification(plImpl, CurrentId, plChanges[plChangeIdx]))
    /\ plChangeIdx' = plChangeIdx + 1
    /\ UNCHANGED <<plImpl, plPc, plRows, plBatch, plIdx, plFresh, plChanges,
                   casesChecked, updatesFound, errorCount, updated,
                   plNow, plResolved, plDeadlineAt, plDelays, plOutcomes>>
    /\ UNCHANGED <<cases, OtherParts, envVars>>

\* after the changes: the full update, updated++
ScriptUpdate ==
    /\ plImpl = "script" /\ plPc = "changes" /\ plChangeIdx > Len(plChanges)
    /\ cases' = [cases EXCEPT ![CurrentId] =
                    ScriptWrite(@, CurrentRow, PipelinePayload(plFresh), plNow)]
    /\ updated' = updated + 1
    /\ plPc' = "delay"
    /\ UNCHANGED <<plImpl, plRows, plBatch, plIdx, plFresh, plChanges, plChangeIdx,
                   casesChecked, updatesFound, errorCount,
                   plNow, plResolved, plDeadlineAt, plDelays, plOutcomes>>
    /\ UNCHANGED <<case_updates, notified, OtherParts, envVars>>

\* no change detected: update({ last_checked_at })
ScriptTouch ==
    /\ plImpl = "script" /\ plPc = "touch"
    /\ cases' = [cases EXCEPT ![CurrentId].last_checked_at = plNow]
    /\ plPc' = "delay"
    /\ UNCHANGED <<plImpl, plRows, plBatch, plIdx, plFresh, plChanges, plChangeIdx,
                   casesChecked, updatesFound, errorCount, updated,
                   plNow, plResolved, plDeadlineAt, plDelays, plOutcomes>>
    /\ UNCHANGED <<case_updates, notified, OtherParts, envVars>>

\* "Rate limit: 1 second between API calls"
ScriptDelay ==
    /\ plImpl = "script" /\ plPc = "delay"
    /\ plDelays' = plDelays + 1
    /\ plPc' = "loop"
    /\ plIdx' = plIdx + 1
    /\ plNow' = plNow + 1
    /\ UNCHANGED <<plImpl, plRows, plBatch, plFresh, plChanges, plChangeIdx,
                   casesChecked, updatesFound, errorCount, updated,
                   plResolved, plDeadlineAt, plOutcomes>>
    /\ UNCHANGED <<storeVars, OtherParts, envVars>>

\* checkUpcomingHearings: the alert_log query for a reminder sent today
ExistingAlert(log, id) ==
    \E i \in DOMAIN log :
        log[i].case_id = id /\ LikeHearingReminder(log[i].subject)

RECURSIVE ScriptReminders(_, _, _)
ScriptReminders(order, store, log) ==
    IF order = << >> THEN log
    ELSE ScriptReminders(Tail(order), store,
            IF ExistingAlert(log, Head(order)) THEN log
            ELSE log \o Reminders(<<Head(order)>>, store, "script"))

\* checkUpcomingHearings, called when the loop is over or the batch is empty
ScriptSweep ==
    /\ plImpl = "script"
    /\ plPc = "sweep" \/ (plPc = "loop" /\ plIdx > Len(plBatch))
    /\ \E order \in Orderings(UpcomingIds(cases)) :
          notified' = ScriptReminders(order, cases, notified)
    /\ plPc' = "done"
    /\ UNCHANGED <<plImpl, plRows, plBatch, plIdx, plFresh, plChanges, plChangeIdx,
                   casesChecked, updatesFound, errorCount, updated,
                   plNow, plResolved, plDeadlineAt, plDelays, plOutcomes>>
    /\ UNCHANGED <<cases, case_updates, OtherParts, envVars>>

NextPipeline ==
    \/ PlFetchFailed \/ PlFetchCases
    \/ CronDeadlineBreak \/ CronResolveNull \/ CronResolveSnapshot \/ CronUpdate
    \/ CronProcessChange \/ CronProcessChangeThrows \/ CronFinishCase \/ CronSweep
    \/ CronSweepThrows
    \/ ScriptFetchThrows \/ ScriptFetchNull \/ ScriptFetchFresh \/ ScriptProcessChange
    \/ ScriptUpdate \/ ScriptTouch \/ ScriptDelay \/ ScriptSweep

(***************************************************************************)
(* Serialized runs over one store.  The cron route and the script are      *)
(* both scheduled against the same tables; a run starts when the one       *)
(* before it has ended.  Case 1 is active and was last stored from what    *)
(* the portal answered then; the portal's answer changes at most once.     *)
(***************************************************************************)
MaxRuns == 2

\* the row a cycle leaves behind for a never-checked case that resolved to F
RowFrom(F) == CronWrite(NewRow, NewRow, F, << >>, 1)

InitRuns ==
    /\ \E u \in PipelineSnapshots :
          /\ upstream = {u}
          /\ cases = [id \in CaseIds |->
                        IF id = 1 THEN RowFrom(u)
                        ELSE [NewRow EXCEPT !.is_active = FALSE]]
    /\ upstreamPrev = {}
    /\ case_updates = << >>
    /\ notified = << >>
    /\ plImpl \in {"cron", "script"}
    /\ plPc = "start"
    /\ plRows = << >>
    /\ plBatch = << >>
    /\ plIdx = 0
    /\ plFresh = NULL
    /\ plChanges = << >>
    /\ plChangeIdx = 0
    /\ casesChecked = 0
    /\ updatesFound = 0
    /\ errorCount = 0
    /\ updated = 0
    /\ plNow = 3
    /\ plResolved = {}
    /\ plDeadlineAt = 0
    /\ plDelays = 0
    /\ plOutcomes = << >>
    /\ plRun = 1
    /\ CaseTypeIdle /\ DetectIdle /\ LookupIdle /\ ServiceIdle /\ SearchIdle /\ AuthIdle
    /\ ExtraIdle

\* the next scheduled invocation, of either pipeline, after the previous one
\* has returned
PlNextRun ==
    /\ plPc \in {"done", "failed", "crashed"}
    /\ plRun < MaxRuns
    /\ plRun' = plRun + 1
    /\ plImpl' \in {"cron", "script"}
    /\ plPc' = "start"
    /\ plRows' = << >>
    /\ plBatch' = << >>
    /\ plIdx' = 0
    /\ plFresh' = NULL
    /\ plChanges' = << >>
    /\ plChangeIdx' = 0
    /\ casesChecked' = 0
    /\ updatesFound' = 0
    /\ errorCount' = 0
    /\ updated' = 0
    /\ plNow' = plNow + 1
    /\ plResolved' = {}
    /\ plDeadlineAt' = 0
    /\ plDelays' = 0
    /\ plOutcomes' = << >>
    /\ UNCHANGED <<upstream, upstreamPrev, storeVars, OtherParts>>

\* the court portal starts answering with another snapshot
UpstreamChange ==
    /\ plPc # "off"
    /\ upstreamPrev = {}
    /\ \E u \in PipelineSnapshots \ upstream : upstream' = {u}
    /\ upstreamPrev' = upstream
    /\ UNCHANGED <<plRun, storeVars, plVars, OtherParts>>

NextRuns == NextPipeline \/ PlNextRun \/ UpstreamChange

(***************************************************************************)
(* Runs of the cron route without end.  Every tracked case starts as a     *)
(* never-checked case and stays active, and the portal answers with one    *)
(* snapshot.  The store orders cases by last_checked_at                    *)
(* and nothing else reads the timestamps, so between two runs they are     *)
(* replaced by their ranks (0 stays the null timestamp); the change        *)
(* records and notifications of the finished run are dropped, since no     *)
(* run's scheduling depends on them.                                       *)
(***************************************************************************)
Stamps(store) ==
    UNION { {store[id].last_checked_at, store[id].last_changed_at} : id \in DOMAIN store }
        \ {0}

Rank(t, store) == IF t = 0 THEN 0 ELSE Cardinality({ s \in Stamps(store) : s <= t })

Ranked(store) ==
    [ id \in DOMAIN store |->
        [ store[id] EXCEPT !.last_checked_at = Rank(@, store),
                           !.last_changed_at = Rank(@, store) ] ]

InitForever ==
    /\ \E u \in PipelineSnapshots :
          /\ upstream = {u}
          /\ cases = [id \in CaseIds |-> NewRow]
    /\ upstreamPrev = {}
    /\ case_updates = << >>
    /\ notified = << >>
    /\ plImpl = "cron"
    /\ plPc = "start"
    /\ plRows = << >>
    /\ plBatch = << >>
    /\ plIdx = 0
    /\ plFresh = NULL
    /\ plChanges = << >>
    /\ plChangeIdx = 0
    /\ casesChecked = 0
    /\ updatesFound = 0
    /\ errorCount = 0
    /\ updated = 0
    /\ plNow = 2
    /\ plResolved = {}
    /\ plDeadlineAt = 0
    /\ plDelays = 0
    /\ plOutcomes = << >>
    /\ plRun = 1
    /\ CaseTypeIdle /\ DetectIdle /\ LookupIdle /\ ServiceIdle /\ SearchIdle /\ AuthIdle
    /\ ExtraIdle

\* the next scheduled invocation of the route
PlRunAgain ==
    /\ plPc \in {"done", "failed", "crashed"}
    /\ plImpl' = "cron"
    /\ plPc' = "start"
    /\ plRows' = << >>
    /\ plBatch' = << >>
    /\ plIdx' = 0
    /\ plFresh' = NULL
    /\ plChanges' = << >>
    /\ plChangeIdx' = 0
    /\ casesChecked' = 0
    /\ updatesFound' = 0
    /\ errorCount' = 0
    /\ updated' = 0
    /\ plResolved' = {}
    /\ plDeadlineAt' = 0
    /\ plDelays' = 0
    /\ plOutcomes' = << >>
    /\ cases' = Ranked(cases)
    /\ plNow' = Cardinality(Stamps(cases)) + 1
    /\ case_updates' = << >>
    /\ notified' = << >>
    /\ UNCHANGED <<plRun, upstream, upstreamPrev, OtherParts>>

NextForever ==
    \/ PlFetchFailed \/ PlFetchCases
    \/ CronDeadlineBreak \/ CronResolveNull \/ CronResolveSnapshot \/ CronUpdate
    \/ CronProcessChange \/ CronProcessChangeThrows \/ CronFinishCase \/ CronSweep
    \/ CronSweepThrows
    \/ PlRunAgain

\* the loop reaches its first case: the initial read returned within the
\* time budget of the run
AttemptFirst ==
    /\ plIdx = 1
    /\ (CronResolveNull \/ CronResolveSnapshot)

\* runs keep being scheduled and keep stepping; again and again the initial
\* read succeeds and the loop gets to its first case before the deadline
FairRuns ==
    /\ WF_vars(NextForever)
    /\ SF_vars(PlFetchCases)
    /\ SF_vars(AttemptFirst)

(***************************************************************************)
(* CourtService.searchByPartyName                                          *)
(* A provider search resolves to a list of results or rejects (throws).    *)
(***************************************************************************)
MaxResults == 2

\* params.courtType: one of the five categories, or not given
SearchCourtTypes == CourtTypes \cup {NULL}

\* SearchResult.caseTitle as the portals print it
CaseTitles == { <<"A", " ", "v", " ", "B">>, <<"a", " ", "V", " ", "b">>, <<"C">> }

\* the result lists of length n a provider can answer with
ResultsOf(source, n) == [1 .. n -> [source : {source}, caseTitle : CaseTitles]]

SearchOutcomes(source) ==
    { [threw |-> TRUE, results |-> << >>] }
        \cup { [threw |-> FALSE, results |-> r] :
                   r \in UNION { ResultsOf(source, n) : n \in 0 .. MaxResults } }

\* !params.courtType || params.courtType === "SC"
ScSelected(courtType) == ~Truthy(courtType) \/ courtType = "SC"

\* !params.courtType || params.courtType === "HC" || ... "DC", "NCLT", "CF"
EcourtsSelected(courtType) ==
    ~Truthy(courtType) \/ courtType \in {"HC", "DC", "NCLT", "CF"}

\* mutant: the public search engine asked on every request
FallbackAlways(allResults) == TRUE

\* if (allResults.length === 0)
FallbackNeeded(allResults) == Len(allResults) = 0

InitSearch ==
    /\ srPc = "sc"
    /\ srCourtType \in SearchCourtTypes
    /\ srCalls = << >>
    /\ srAll = << >>
    /\ srReturn = << >>
    /\ CaseTypeIdle /\ DetectIdle /\ LookupIdle /\ ServiceIdle /\ PipelineIdle /\ AuthIdle
    /\ ExtraIdle

\* one provider call in its try/catch: results are pushed when there are any
SrCall(source, nextPc) ==
    \E o \in SearchOutcomes(source) :
        /\ srCalls' = Append(srCalls, [provider |-> source, threw |-> o.threw,
                                       results |-> o.results])
        /\ srAll' = IF ~o.threw /\ Len(o.results) > 0 THEN srAll \o o.results ELSE srAll
        /\ srPc' = nextPc

SrSkip(nextPc) ==
    /\ srPc' = nextPc
    /\ UNCHANGED <<srCalls, srAll>>

SearchFrame ==
    UNCHANGED <<ctVars, detVars, lkVars, svcVars, storeVars, plVars, envVars,
                authVars, extraVars>>

\* "1. SC scraper"
SrScSearch ==
    /\ srPc = "sc"
    /\ IF ScSelected(srCourtType) THEN SrCall("sc", "ecourts") ELSE SrSkip("ecourts")
    /\ UNCHANGED <<srCourtType, srReturn>>
    /\ SearchFrame

\* "2. eCourts scraper"
SrEcourtsSearch ==
    /\ srPc = "ecourts"
    /\ IF EcourtsSelected(srCourtType) THEN SrCall("ecourts", "fallback")
       ELSE SrSkip("fallback")
    /\ UNCHANGED <<srCourtType, srReturn>>
    /\ SearchFrame

\* "3. Indian Kanoon fallback"
SrFallback ==
    /\ srPc = "fallback"
    /\ IF FallbackNeeded(srAll) THEN SrCall("ik", "return") ELSE SrSkip("return")
    /\ UNCHANGED <<srCourtType, srReturn>>
    /\ SearchFrame

\* return allResults
SrReturnAll ==
    /\ srPc = "return"
    /\ srReturn' = srAll
    /\ srPc' = "returned"
    /\ UNCHANGED <<srCourtType, srCalls, srAll>>
    /\ SearchFrame

NextSearch == SrScSearch \/ SrEcourtsSearch \/ SrFallback \/ SrReturnAll

(***************************************************************************)
(* The cron endpoint: GET and POST of the route                            *)
(* Header and secret are character strings; an absent header and an unset  *)
(* CRON_SECRET are the one-element sequence Absent, which no string is.     *)
(***************************************************************************)
MaxSecretLen == 2

Absent == <<NULL>>

SecretAlphabet == {"k", "1"}

BearerPrefix == <<"B", "e", "a", "r", "e", "r", " ">>

\* what a template literal prints for undefined
UndefinedText == <<"u", "n", "d", "e", "f", "i", "n", "e", "d">>

\* process.env.CRON_SECRET
SecretValues == SeqsUpTo(SecretAlphabet, MaxSecretLen) \cup {Absent}

\* request.headers.get("authorization")
HeaderValues ==
    { p \o b : p \in { << >>, BearerPrefix, <<"b", "e", "a", "r", "e", "r", " ">>,
                       <<"B", "e", "a", "r", "e", "r">> },
               b \in SeqsUpTo(SecretAlphabet, MaxSecretLen + 1) \cup {UndefinedText} }
        \cup {Absent}

\* `Bearer ${process.env.CRON_SECRET}`
ExpectedHeader(secret) ==
    BearerPrefix \o (IF secret = Absent THEN UndefinedText ELSE secret)

\* authHeader !== `Bearer ${process.env.CRON_SECRET}` is false
HeaderAccepted(header, secret) ==
    header # Absent /\ header = ExpectedHeader(secret)

InitAuth ==
    /\ authPc = "request"
    /\ authMethod \in {"GET", "POST"}
    /\ authHeader \in HeaderValues
    /\ authSecret \in SecretValues
    /\ authRuns = 0
    /\ CaseTypeIdle /\ DetectIdle /\ LookupIdle /\ ServiceIdle /\ PipelineIdle /\ SearchIdle
    /\ ExtraIdle

\* both handlers: 401, or return runCaseUpdates()
AuthHandle ==
    /\ IF HeaderAccepted(authHeader, authSecret)
       THEN authPc' = "runCaseUpdates" /\ authRuns' = authRuns + 1
       ELSE authPc' = "401" /\ authRuns' = authRuns
    /\ UNCHANGED <<authMethod, authHeader, authSecret>>
    /\ UNCHANGED <<ctVars, detVars, lkVars, svcVars, storeVars, plVars, envVars,
                   srVars, extraVars>>

\* export async function GET(request)
AuthGET == authPc = "request" /\ authMethod = "GET" /\ AuthHandle

\* export async function POST(request)
AuthPOST == authPc = "request" /\ authMethod = "POST" /\ AuthHandle

NextAuth == AuthGET \/ AuthPOST

(***************************************************************************)
(* Notification of one change: notifyCaseUpdate (route) and notifyUser     *)
(* (script).  sendTelegramMessage, sendEmail, sendTelegram and             *)
(* sendEmailNotification catch every error and resolve to a boolean.       *)
(***************************************************************************)
Channels == {"telegram", "email"}

UpdateTypes == {"status_change", "hearing_date_change", "new_order", "judge_change"}

\* the row of profiles
Profiles ==
    [ telegram_alerts  : BOOLEAN,
      telegram_chat_id : {NULL, "", "42"},
      email_alerts     : BOOLEAN,
      email            : {NULL, "u@example.org"} ]

\* profile.telegram_alerts && profile.telegram_chat_id,
\* profile.email_alerts && profile.email
ChannelOn(profile, channel) ==
    IF channel = "telegram"
    THEN profile.telegram_alerts /\ Truthy(profile.telegram_chat_id)
    ELSE profile.email_alerts /\ Truthy(profile.email)

\* updateType.replace(/_/g, " ")
Spaced(updateType) ==
    CASE updateType = "status_change" -> "status change"
      [] updateType = "hearing_date_change" -> "hearing date change"
      [] updateType = "new_order" -> "new order"
      [] updateType = "judge_change" -> "judge change"

\* the subject column of the alert_log record
AlertSubject(impl, channel, updateType) ==
    IF impl = "cron"
    THEN IF channel = "telegram" THEN <<CronSubject(updateType)>>
         ELSE <<"Case Update: ", "caseTitle", " - ", Spaced(updateType)>>
    ELSE IF channel = "telegram" THEN <<ScriptLabel(updateType)>>
         ELSE <<"caseTitle", " - ", ScriptLabel(updateType)>>

\* mutant: every record says "sent"
AlertStatusAlwaysSent(sent) == "sent"

\* status: sent ? "sent" : "failed"
AlertStatus(sent) == IF sent THEN "sent" ELSE "failed"

AlertRecord(impl, channel, updateType, sent) ==
    [ alert_type |-> channel,
      subject    |-> AlertSubject(impl, channel, updateType),
      status     |-> AlertStatus(sent) ]

\* ntProfile is the result of .single(): no row, or one
InitNotify ==
    /\ ntPc = "profile"
    /\ ntImpl \in {"cron", "script"}
    /\ ntProfile \in { << >> } \cup { <<p>> : p \in Profiles }
    /\ ntType \in UpdateTypes
    /\ ntChan = [c \in Channels |-> "wait"]
    /\ ntAttempts = << >>
    /\ alert_log = << >>
    /\ CaseTypeIdle /\ DetectIdle /\ LookupIdle /\ ServiceIdle /\ PipelineIdle
    /\ SearchIdle /\ AuthIdle /\ SessionIdle /\ LateIdle

NotifyFrame ==
    UNCHANGED <<ctVars, detVars, lkVars, svcVars, storeVars, plVars, envVars,
                srVars, authVars, gsVars, lateVars>>

\* if (!profile) return; then the two channel conditions
NtLoadProfile ==
    /\ ntPc = "profile"
    /\ IF ntProfile = << >>
       THEN ntPc' = "returned" /\ UNCHANGED ntChan
       ELSE /\ ntPc' = "channels"
            /\ ntChan' = [c \in Channels |->
                             IF ChannelOn(ntProfile[1], c) THEN "send" ELSE "skip"]
    /\ UNCHANGED <<ntImpl, ntProfile, ntType, ntAttempts, alert_log>>
    /\ NotifyFrame

\* const sent = await send...(...): the transport resolves to true or false.
\* The route starts both channels before awaiting either (Promise.allSettled);
\* the script finishes telegram before it looks at email.
NtSend(channel) ==
    /\ \E sent \in BOOLEAN :
          /\ ntAttempts' = Append(ntAttempts, [channel |-> channel, sent |-> sent])
          /\ ntChan' = [ntChan EXCEPT ![channel] = IF sent THEN "ok" ELSE "ko"]
    /\ UNCHANGED <<ntPc, ntImpl, ntProfile, ntType, alert_log>>
    /\ NotifyFrame

\* await supabase.from("alert_log").insert({...})
NtLog(channel) ==
    /\ alert_log' = Append(alert_log,
                           AlertRecord(ntImpl, channel, ntType, ntChan[channel] = "ok"))
    /\ ntChan' = [ntChan EXCEPT ![channel] = "done"]
    /\ UNCHANGED <<ntPc, ntImpl, ntProfile, ntType, ntAttempts>>
    /\ NotifyFrame

NtTelegramSend ==
    /\ ntPc = "channels" /\ ntChan["telegram"] = "send"
    /\ NtSend("telegram")

NtTelegramLog ==
    /\ ntPc = "channels" /\ ntChan["telegram"] \in {"ok", "ko"}
    /\ NtLog("telegram")

NtEmailSend ==
    /\ ntPc = "channels" /\ ntChan["email"] = "send"
    /\ ntImpl = "script" => ntChan["telegram"] \in {"skip", "done"}
    /\ NtSend("email")

NtEmailLog ==
    /\ ntPc = "channels" /\ ntChan["email"] \in {"ok", "ko"}
    /\ NtLog("email")

\* await Promise.allSettled(promises) resolves / notifyUser returns
NtReturn ==
    /\ ntPc = "channels"
    /\ \A c \in Channels : ntChan[c] \in {"skip", "done"}
    /\ ntPc' = "returned"
    /\ UNCHANGED <<ntImpl, ntProfile, ntType, ntChan, ntAttempts, alert_log>>
    /\ NotifyFrame

NextNotify ==
    \/ NtLoadProfile
    \/ NtTelegramSend \/ NtTelegramLog
    \/ NtEmailSend \/ NtEmailLog
    \/ NtReturn

(***************************************************************************)
(* Supreme Court session negotiation, step by step (getSession)            *)
(* A regex match is the matched text, or << >> when there is none; the     *)
(* vision solver's answer is << >> when it is null or empty.  gsTrace      *)
(* lists what the negotiation did: "page" and "image" are the two fetches, *)
(* "markup" the call of trySolveCaptchaFromHtml, "vision" the solver call. *)
(***************************************************************************)
\* String(n) for the small integers an expression can evaluate to
DigitChar(d) ==
    CASE d = 0 -> "0" [] d = 1 -> "1" [] d = 2 -> "2" [] d = 3 -> "3" [] d = 4 -> "4"
      [] d = 5 -> "5" [] d = 6 -> "6" [] d = 7 -> "7" [] d = 8 -> "8" [] d = 9 -> "9"

RECURSIVE NatToString(_)
NatToString(n) ==
    IF n < 10 THEN <<DigitChar(n)>>
    ELSE Append(NatToString(n \div 10), DigitChar(n % 10))

NumberToString(n) == IF n < 0 THEN <<"-">> \o NatToString(0 - n) ELSE NatToString(n)

\* expr is <<a, op, b>>
evalMathExpression(expr) ==
    IF expr[2] = "+" THEN expr[1] + expr[3] ELSE expr[1] - expr[3]

\* the four places the answer can leak in the page, in the order tried;
\* << >> is the function's null
trySolveCaptchaFromHtml(html) ==
    IF html.dataCaptcha # << >>
    THEN NumberToString(evalMathExpression(html.dataCaptcha))
    ELSE IF html.captchaAlt # << >>
    THEN NumberToString(evalMathExpression(html.captchaAlt))
    ELSE IF html.hiddenResult # << >>
    THEN html.hiddenResult
    ELSE IF html.mathText # << >>
    THEN NumberToString(evalMathExpression(html.mathText))
    ELSE << >>

\* the case status page as the portal serves it
ScPages ==
    [ status       : {"error", "no_scid", "no_token", "ok"},
      dataCaptcha  : { << >>, <<3, "+", 4>> },
      captchaAlt   : { << >>, <<2, "-", 2>> },
      hiddenResult : { << >>, <<"7">> },
      mathText     : { << >>, <<1, "-", 4>> },
      imageUrl     : BOOLEAN ]

\* the CAPTCHA image endpoint and the vision solver
ScSolverEnvs ==
    [ imageOk         : BOOLEAN,
      azureConfigured : BOOLEAN,
      visionAnswer    : { << >>, <<"1", "2">> } ]

\* mutant: the answer found in the markup is not used
HtmlAnswerIgnored(htmlAnswer) == FALSE

\* if (htmlAnswer)
HtmlAnswerFound(htmlAnswer) == htmlAnswer # << >>

Thrown == [kind |-> "throw", captchaAnswer |-> << >>]

Session(captchaAnswer) == [kind |-> "session", captchaAnswer |-> captchaAnswer]

InitSession ==
    /\ gsPc = "page"
    /\ gsPage \in ScPages
    /\ gsEnv \in ScSolverEnvs
    /\ gsTrace = << >>
    /\ gsResult = [kind |-> "pending", captchaAnswer |-> << >>]
    /\ CaseTypeIdle /\ DetectIdle /\ LookupIdle /\ ServiceIdle /\ PipelineIdle
    /\ SearchIdle /\ AuthIdle /\ NotifyIdle /\ LateIdle

SessionFrame ==
    UNCHANGED <<ctVars, detVars, lkVars, svcVars, storeVars, plVars, envVars,
                srVars, authVars, ntVars, lateVars>>

GsThrow ==
    /\ gsPc' = "done"
    /\ gsResult' = Thrown

GsReturn(captchaAnswer) ==
    /\ gsPc' = "done"
    /\ gsResult' = Session(captchaAnswer)

\* fetch(SC_CASE_STATUS_PAGE); if (!response.ok) throw
GsFetchPage ==
    /\ gsPc = "page"
    /\ gsTrace' = Append(gsTrace, "page")
    /\ IF gsPage.status = "error" THEN GsThrow
       ELSE gsPc' = "extract" /\ UNCHANGED gsResult
    /\ UNCHANGED <<gsPage, gsEnv>>
    /\ SessionFrame

\* scid and CSRF token
GsExtract ==
    /\ gsPc = "extract"
    /\ IF gsPage.status \in {"no_scid", "no_token"} THEN GsThrow
       ELSE gsPc' = "markup" /\ UNCHANGED gsResult
    /\ UNCHANGED <<gsPage, gsEnv, gsTrace>>
    /\ SessionFrame

\* "Try HTML-based CAPTCHA solution first (free)"
GsMarkup ==
    /\ gsPc = "markup"
    /\ gsTrace' = Append(gsTrace, "markup")
    /\ LET htmlAnswer == trySolveCaptchaFromHtml(gsPage)
       IN  IF HtmlAnswerFound(htmlAnswer) THEN GsReturn(htmlAnswer)
           ELSE gsPc' = "image" /\ UNCHANGED gsResult
    /\ UNCHANGED <<gsPage, gsEnv>>
    /\ SessionFrame

\* the image URL, and the download of the image
GsImage ==
    /\ gsPc = "image"
    /\ IF ~gsPage.imageUrl
       THEN GsThrow /\ UNCHANGED gsTrace
       ELSE /\ gsTrace' = Append(gsTrace, "image")
            /\ IF ~gsEnv.imageOk THEN GsThrow
               ELSE gsPc' = "solve" /\ UNCHANGED gsResult
    /\ UNCHANGED <<gsPage, gsEnv>>
    /\ SessionFrame

\* solveCaptchaImage: Azure Vision when configured, otherwise an error
GsSolve ==
    /\ gsPc = "solve"
    /\ IF gsEnv.azureConfigured
       THEN /\ gsTrace' = Append(gsTrace, "vision")
            /\ IF gsEnv.visionAnswer # << >> THEN GsReturn(gsEnv.visionAnswer)
               ELSE GsThrow
       ELSE GsThrow /\ UNCHANGED gsTrace
    /\ UNCHANGED <<gsPage, gsEnv>>
    /\ SessionFrame

NextSession == GsFetchPage \/ GsExtract \/ GsMarkup \/ GsImage \/ GsSolve

(***************************************************************************)
(* A pipeline run interleaved with the PATCH requests of the cases' owner.  *)
(* The rows carry the columns the owner edits (tags, notes, is_active) next *)
(* to the ones the pipelines write.  A request may land before the run     *)
(* reads the rows, between the read and a write, or after the run.  Every  *)
(* case starts active and checked once.                                    *)
(***************************************************************************)
MaxPatches == 2

\* the case the requests are about: .eq("id", id)
PatchedCase == 1

\* const allowedFields = ["tags", "notes", "is_active"]
allowedFields == {"tags", "notes", "is_active"}

\* tags TEXT[] DEFAULT '{}', notes TEXT DEFAULT ''
TrackedRow(row) ==
    [ f \in DOMAIN row \cup {"tags", "notes"} |->
        CASE f = "tags"  -> << >>
          [] f = "notes" -> ""
          [] OTHER       -> row[f] ]

\* request bodies: each key is present or not; a body may also name
\* columns outside the allowed ones
PatchBody(tags, notes, active, status, checked) ==
    [ f \in  (IF tags = << >> THEN {} ELSE {"tags"})
        \cup (IF notes = << >> THEN {} ELSE {"notes"})
        \cup (IF active = << >> THEN {} ELSE {"is_active"})
        \cup (IF status = << >> THEN {} ELSE {"current_status"})
        \cup (IF checked = << >> THEN {} ELSE {"last_checked_at"}) |->
        CASE f = "tags"            -> tags[1]
          [] f = "notes"           -> notes[1]
          [] f = "is_active"       -> active[1]
          [] f = "current_status"  -> status[1]
          [] f = "last_checked_at" -> checked[1] ]

PatchBodies ==
    { PatchBody(t, n, a, s, c) :
        t \in {<< >>, << <<"urgent">> >>},
        n \in {<< >>, <<"call client">>},
        a \in {<< >>, <<TRUE>>, <<FALSE>>},
        s \in {<< >>, <<"Closed">>},
        c \in {<< >>, <<0>>} }

\* mutant: the body is handed to update() as it came
PatchUpdatesUnfiltered(body) == body

\* for (const field of allowedFields)
\*   if (body[field] !== undefined) updates[field] = body[field]
PatchUpdates(body) ==
    [ f \in DOMAIN body \cap allowedFields |-> body[f] ]

\* .update(updates): the named columns change, the others stay
ApplyUpdates(row, updates) ==
    [ f \in DOMAIN row |-> IF f \in DOMAIN updates THEN updates[f] ELSE row[f] ]

Columns(row, fields) == [ f \in fields |-> row[f] ]

InitPatch ==
    /\ cases = [id \in CaseIds |-> TrackedRow(PendingRow)]
    /\ case_updates = << >>
    /\ notified = << >>
    /\ plImpl \in {"cron", "script"}
    /\ plPc = "start"
    /\ plRows = << >>
    /\ plBatch = << >>
    /\ plIdx = 0
    /\ plFresh = NULL
    /\ plChanges = << >>
    /\ plChangeIdx = 0
    /\ casesChecked = 0
    /\ updatesFound = 0
    /\ errorCount = 0
    /\ updated = 0
    /\ plNow = 3
    /\ plResolved = {}
    /\ plDeadlineAt = 0
    /\ plDelays = 0
    /\ plOutcomes = << >>
    /\ plRun = 1
    /\ upstream = PipelineSnapshots
    /\ upstreamPrev = {}
    /\ ptCount = 0
    /\ ptLast = [id \in CaseIds |-> Columns(cases[id], allowedFields)]
    /\ CaseTypeIdle /\ DetectIdle /\ LookupIdle /\ ServiceIdle /\ SearchIdle /\ AuthIdle
    /\ NotifyIdle /\ SessionIdle /\ EndpointsIdle

PatchFrame ==
    UNCHANGED <<ctVars, detVars, lkVars, svcVars, plVars, envVars,
                srVars, authVars, ntVars, gsVars, ecVars>>

\* if (!user) return 401
PatchUnauthorized ==
    /\ ptCount < MaxPatches
    /\ ptCount' = ptCount + 1
    /\ UNCHANGED <<ptLast, storeVars>>
    /\ PatchFrame

\* PATCH /api/cases/[id] of the case's owner, for the case PatchedCase
PatchCase ==
    /\ ptCount < MaxPatches
    /\ ptCount' = ptCount + 1
    /\ \E body \in PatchBodies :
          /\ cases' = [cases EXCEPT ![PatchedCase] = ApplyUpdates(@, PatchUpdates(body))]
          /\ ptLast' = [ptLast EXCEPT ![PatchedCase] =
                           [ f \in allowedFields |->
                               IF f \in DOMAIN body THEN body[f] ELSE @[f] ]]
    /\ UNCHANGED <<case_updates, notified>>
    /\ PatchFrame

NextPatch ==
    \/ PlFetchFailed \/ PlFetchCases
    \/ CronDeadlineBreak \/ CronResolveNull \/ CronResolveSnapshot \/ CronUpdate
    \/ CronProcessChange \/ CronProcessChangeThrows \/ CronFinishCase \/ CronSweep
    \/ CronSweepThrows
    \/ ScriptFetchThrows \/ ScriptFetchNull \/ ScriptFetchFresh \/ ScriptProcessChange
    \/ ScriptUpdate \/ ScriptTouch \/ ScriptDelay \/ ScriptSweep
    \/ PatchUnauthorized \/ PatchCase

(***************************************************************************)
(* One CourtService.getCaseStatus call followed down to the lookups the    *)
(* eCourts provider issues.  A lookup is one of the four retry-bounded     *)
(* functions of EcourtsLookups; it resolves to a snapshot or to null after *)
(* 1 .. MAX_CAPTCHA_RETRIES_EC session negotiations and never throws.  The *)
(* log keeps every lookup issued and the negotiations it took.             *)
(***************************************************************************)
LookupResults == {NULL, "CaseStatus"}

Issued(fn, negotiations) == [fn |-> fn, negotiations |-> negotiations]

\* one retry-bounded lookup: the log entry and the value it resolves to
EcLookup(fn, result) ==
    /\ result \in LookupResults
    /\ \E n \in 1 .. MAX_CAPTCHA_RETRIES_EC : ecLog' = Append(ecLog, Issued(fn, n))

InitEndpoints ==
    /\ ecId \in [courtType : CourtTypes, cnrNumber : CnrNumbers]
    /\ ecPc = IF ecId.courtType = "SC" THEN "sc" ELSE "ecourts"
    /\ ecFrames = << >>
    /\ ecLog = << >>
    /\ ecResult = NULL
    /\ CaseTypeIdle /\ DetectIdle /\ LookupIdle /\ ServiceIdle /\ PipelineIdle
    /\ SearchIdle /\ AuthIdle /\ NotifyIdle /\ SessionIdle /\ PatchIdle

EndpointsFrame ==
    UNCHANGED <<ctVars, detVars, lkVars, svcVars, storeVars, plVars, envVars,
                srVars, authVars, ntVars, gsVars, ptVars>>

\* CourtService.getCaseStatus returns
EcReturn(result) ==
    /\ ecPc' = "done"
    /\ ecResult' = result
    /\ ecFrames' = << >>

\* ecourtsProvider.getCaseStatus is back in CourtService.getCaseStatus:
\* if (result) return result; then if (identifier.cnrNumber)
EcAfterStatus(result) ==
    IF result # NULL THEN EcReturn(result)
    ELSE IF Truthy(ecId.cnrNumber)
         THEN ecPc' = "service_cnr" /\ UNCHANGED <<ecResult, ecFrames>>
         ELSE EcReturn(NULL)

\* if (identifier.cnrNumber): "prefer CNR lookup"
EcPrefersCnr(cnrNumber) == Truthy(cnrNumber)

\* getCaseByCNR is back at its caller.  In the provider's getCaseStatus:
\* if (cnrResult) return cnrResult, else on to the switch; in CourtService:
\* if (result) return result, else return null
EcAfterCnr(result) ==
    IF result # NULL THEN EcReturn(result)
    ELSE IF Head(ecFrames) = "getCaseStatus"
         THEN ecPc' = "number" /\ ecFrames' = << >> /\ UNCHANGED ecResult
         ELSE EcReturn(NULL)

\* the SC block of CourtService.getCaseStatus; scProvider.getCaseStatus
\* catches what its lookup throws
EcScStatus ==
    /\ ecPc = "sc"
    /\ \E result \in LookupResults :
          IF result # NULL THEN EcReturn(result)
          ELSE ecPc' = "ecourts" /\ UNCHANGED <<ecResult, ecFrames>>
    /\ UNCHANGED <<ecId, ecLog>>
    /\ EndpointsFrame

\* ecourtsProvider.getCaseStatus(identifier) is entered
EcGetCaseStatus ==
    /\ ecPc = "ecourts"
    /\ IF EcPrefersCnr(ecId.cnrNumber)
       THEN ecPc' = "cnr_hc" /\ ecFrames' = <<"getCaseStatus">>
       ELSE ecPc' = "number" /\ UNCHANGED ecFrames
    /\ UNCHANGED <<ecId, ecLog, ecResult>>
    /\ EndpointsFrame

\* getCaseByCNR: fetchHCCaseByCNR(cnrNumber)
EcHCByCNR ==
    /\ ecPc = "cnr_hc"
    /\ \E result \in LookupResults :
          /\ EcLookup("HC_CNR", result)
          /\ IF result # NULL THEN EcAfterCnr(result)
             ELSE ecPc' = "cnr_dc" /\ UNCHANGED <<ecResult, ecFrames>>
    /\ UNCHANGED ecId
    /\ EndpointsFrame

\* getCaseByCNR: fetchDistrictCaseByCNR(cnrNumber), then return
EcDistrictByCNR ==
    /\ ecPc = "cnr_dc"
    /\ \E result \in LookupResults :
          /\ EcLookup("DC_CNR", result)
          /\ EcAfterCnr(result)
    /\ UNCHANGED ecId
    /\ EndpointsFrame

\* switch (identifier.courtType): HC; DC, NCLT, CF; default
EcByNumber ==
    /\ ecPc = "number"
    /\ \E result \in LookupResults :
          CASE ecId.courtType = "HC" ->
                  EcLookup("HC_NUMBER", result) /\ EcAfterStatus(result)
            [] ecId.courtType \in {"DC", "NCLT", "CF"} ->
                  EcLookup("DC_NUMBER", result) /\ EcAfterStatus(result)
            [] OTHER ->
                  /\ EcLookup("DC_NUMBER", result)
                  /\ IF result # NULL THEN EcAfterStatus(result)
                     ELSE ecPc' = "number_hc" /\ UNCHANGED <<ecResult, ecFrames>>
    /\ UNCHANGED ecId
    /\ EndpointsFrame

\* default: return await fetchHCCaseByNumber(identifier)
EcDefaultHCByNumber ==
    /\ ecPc = "number_hc"
    /\ \E result \in LookupResults :
          /\ EcLookup("HC_NUMBER", result)
          /\ EcAfterStatus(result)
    /\ UNCHANGED ecId
    /\ EndpointsFrame

\* the CNR block of CourtService.getCaseStatus: scProvider.getCaseByCNR
\* (which resolves to null) for SC, ecourtsProvider.getCaseByCNR otherwise
EcServiceCnr ==
    /\ ecPc = "service_cnr"
    /\ IF ecId.courtType = "SC"
       THEN EcReturn(NULL)
       ELSE ecPc' = "cnr_hc" /\ ecFrames' = <<"CourtService">> /\ UNCHANGED ecResult
    /\ UNCHANGED <<ecId, ecLog>>
    /\ EndpointsFrame

NextEndpoints ==
    \/ EcScStatus \/ EcGetCaseStatus \/ EcHCByCNR \/ EcDistrictByCNR
    \/ EcByNumber \/ EcDefaultHCByNumber \/ EcServiceCnr

(***************************************************************************)
(* Properties of the retry-bounded lookups (SpecLookup)                    *)
(***************************************************************************)
\* the lookup ended, every negotiation gave a session, and every request
\* submitted with one was CAPTCHA-rejected
EveryRequestCaptchaRejected ==
    /\ lkPc = "done"
    /\ lkFailedNegotiations = 0
    /\ lkSubmitted = lkNegotiations
    /\ lkRejected = lkSubmitted

ServiceChain(id) ==
    IF id.courtType = "SC"
    THEN <<"sc.getCaseStatus", "ecourts.getCaseStatus">>
            \o (IF Truthy(id.cnrNumber) THEN <<"sc.getCaseByCNR">> ELSE << >>)
    ELSE <<"ecourts.getCaseStatus">>
            \o (IF Truthy(id.cnrNumber) THEN <<"ecourts.getCaseByCNR">> ELSE << >>)

\* C2: getCaseStatus never throws; a provider call that throws or gives null
\* is followed by the next call of the chain; the first snapshot a call
\* returns is the result, in particular when the first call threw.
C2_FallbackIsolatesFailures ==
    /\ svcResult.kind # "throw"
    /\ svcPc = "done" =>
        LET chain == ServiceChain(svcId)
            n == Len(svcCalls)
        IN  /\ n <= Len(chain)
            /\ \A i \in 1..n : svcCalls[i].call = chain[i]
            /\ \A i \in 1..n :
                  svcCalls[i].outcome = "snapshot"
                     => (i = n /\ svcResult = [kind |-> "snapshot", from |-> chain[i]])
            /\ \A i \in 1..n :
                  (svcCalls[i].outcome = "throw" /\ i < Len(chain)) => n > i
            /\ (\A i \in 1..n : svcCalls[i].outcome # "snapshot")
                  => (n = Len(chain) /\ svcResult.kind = "null")

\* the first provider call threw and a later one returned the snapshot that
\* getCaseStatus returned
C2_Witness ==
    /\ svcPc = "done"
    /\ Len(svcCalls) >= 2
    /\ svcCalls[1].outcome = "throw"
    /\ svcCalls[Len(svcCalls)].outcome = "snapshot"
    /\ svcResult = [kind |-> "snapshot", from |-> svcCalls[Len(svcCalls)].call]

\* the provider matching the court category
ApplicableProvider(id) == IF id.courtType = "SC" THEN "sc" ELSE "ecourts"

\* the status lookup of the applicable provider, then its registry-number
\* lookup when the identifier has a registry number
ApplicableChain(id) ==
    IF ApplicableProvider(id) = "sc"
    THEN <<"sc.getCaseStatus">>
            \o (IF Truthy(id.cnrNumber) THEN <<"sc.getCaseByCNR">> ELSE << >>)
    ELSE <<"ecourts.getCaseStatus">>
            \o (IF Truthy(id.cnrNumber) THEN <<"ecourts.getCaseByCNR">> ELSE << >>)

OnlyApplicableProviderCalled ==
    svcPc = "done" =>
        LET chain == ApplicableChain(svcId)
            n == Len(svcCalls)
        IN  /\ n <= Len(chain)
            /\ \A i \in 1..n : svcCalls[i].call = chain[i]
            /\ \A i \in 1..n :
                  svcCalls[i].outcome = "snapshot"
                     => (i = n /\ svcResult = [kind |-> "snapshot", from |-> chain[i]])
            /\ (\A i \in 1..n : svcCalls[i].outcome # "snapshot")
                  => (n = Len(chain) /\ svcResult.kind = "null")

\* C26: getCaseStatus calls only the status lookup of the provider matching the
\* court category and then, when that gave no snapshot and a registry number
\* is present, the registry-number lookup of that provider; the first snapshot
\* is returned and nothing is called after it; without a registry number a
\* null from the status lookup is the result and no other provider is asked.
C26_ApplicableProviderOnly == OnlyApplicableProviderCalled

\* for every category but SC the calls are exactly those
NonScApplicableProviderOnly == svcId.courtType # "SC" => OnlyApplicableProviderCalled

(***************************************************************************)
(* Properties of change detection (SpecDetect)                             *)
(***************************************************************************)
EventsOfType(changes, t) == SelectSeq(changes, LAMBDA e : e.type = t)

StatusEvents == EventsOfType(detChanges, "status_change")

\* C3: exactly one status_change event (oldValue = previous status, newValue =
\* fresh status) when the fresh status is non-empty, differs from the previous
\* status and the previous status is not "Unknown"; no status_change event
\* at all when the previous status is "Unknown".
C3_StatusChangePrecision ==
    detPc = "detected" =>
        /\ ( /\ Truthy(detFresh.currentStatus)
             /\ detFresh.currentStatus # detRow.current_status
             /\ detRow.current_status # "Unknown" )
           => StatusEvents = << Event("status_change", detRow.current_status,
                                      <<detFresh.currentStatus>>) >>
        /\ detRow.current_status = "Unknown" => StatusEvents = << >>

\* a and b are the same value; null, undefined and "" all mean "absent"
SameValue(a, b) == Or(a, NULL) = Or(b, NULL)

AllComparedFieldsEqual ==
    /\ SameValue(detFresh.currentStatus, detRow.current_status)
    /\ SameValue(detFresh.nextHearingDate, detRow.next_hearing_date)
    /\ SameValue(detFresh.lastOrderDate, detRow.last_order_date)
    /\ SameValue(detFresh.judges, detRow.judges)

C5_EmptyFreshFieldSuppressed ==
    detPc = "detected" =>
        /\ ~Truthy(detFresh.currentStatus)
              => EventsOfType(detChanges, "status_change") = << >>
        /\ ~Truthy(detFresh.nextHearingDate)
              => EventsOfType(detChanges, "hearing_date_change") = << >>
        /\ ~Truthy(detFresh.lastOrderDate)
              => EventsOfType(detChanges, "new_order") = << >>
        /\ ~Truthy(detFresh.judges)
              => EventsOfType(detChanges, "judge_change") = << >>

\* detection ran with every fresh field empty or absent against a row whose
\* four fields are all non-empty
C5_Witness ==
    /\ detPc = "detected"
    /\ ~Truthy(detFresh.currentStatus) /\ Truthy(detRow.current_status)
    /\ ~Truthy(detFresh.nextHearingDate) /\ Truthy(detRow.next_hearing_date)
    /\ ~Truthy(detFresh.lastOrderDate) /\ Truthy(detRow.last_order_date)
    /\ ~Truthy(detFresh.judges) /\ Truthy(detRow.judges)

EventKinds == <<"status_change", "hearing_date_change", "new_order", "judge_change">>

KindRank(t) == CHOOSE i \in 1..Len(EventKinds) : EventKinds[i] = t

InFixedOrder(changes) ==
    \A i, j \in 1..Len(changes) :
        i < j => KindRank(changes[i].type) < KindRank(changes[j].type)

BaseRow == [current_status |-> NULL, next_hearing_date |-> NULL,
            last_order_date |-> NULL, judges |-> NULL]

BaseFresh == [currentStatus |-> NULL, nextHearingDate |-> NULL, lastOrderDate |-> NULL,
              lastOrderSummary |-> NULL, judges |-> NULL]

\* the row and the snapshot that keep only kind k's own field pair of (T, F)
OwnPairRow(k, T) ==
    CASE k = "status_change"       -> [BaseRow EXCEPT !.current_status = T.current_status]
      [] k = "hearing_date_change" -> [BaseRow EXCEPT !.next_hearing_date = T.next_hearing_date]
      [] k = "new_order"           -> [BaseRow EXCEPT !.last_order_date = T.last_order_date]
      [] k = "judge_change"        -> [BaseRow EXCEPT !.judges = T.judges]

OwnPairFresh(k, F) ==
    CASE k = "status_change"       -> [BaseFresh EXCEPT !.currentStatus = F.currentStatus]
      [] k = "hearing_date_change" -> [BaseFresh EXCEPT !.nextHearingDate = F.nextHearingDate]
      [] k = "new_order"           -> [BaseFresh EXCEPT !.lastOrderDate = F.lastOrderDate]
      [] k = "judge_change"        -> [BaseFresh EXCEPT !.judges = F.judges]

\* whether a kind-k event is emitted is decided by k's own field pair alone
RulesIndependent ==
    \A i \in 1..Len(EventKinds) :
        LET k == EventKinds[i]
        IN  Len(EventsOfType(detChanges, k))
              = Len(EventsOfType(Detect(detImpl, OwnPairRow(k, detRow),
                                        OwnPairFresh(k, detFresh), detAlias), k))

OnlyStatusAndHearingDiffer ==
    /\ ~SameValue(detFresh.currentStatus, detRow.current_status)
    /\ ~SameValue(detFresh.nextHearingDate, detRow.next_hearing_date)
    /\ SameValue(detFresh.lastOrderDate, detRow.last_order_date)
    /\ SameValue(detFresh.judges, detRow.judges)

KindsOf(changes) == [i \in 1..Len(changes) |-> changes[i].type]

\* C6 as stated: the rules are independent, the events come in the order
\* status_change, hearing_date_change, new_order, judge_change, and whenever
\* only status and next hearing date differ exactly two events are returned.
C6_AsStated ==
    detPc = "detected" =>
        /\ RulesIndependent
        /\ InFixedOrder(detChanges)
        /\ OnlyStatusAndHearingDiffer
              => KindsOf(detChanges) = <<"status_change", "hearing_date_change">>

\* C6 amended: as C6, with the two-event case limited to a non-empty fresh
\* status, a non-empty fresh next hearing date and a previous status other
\* than "Unknown".
C6_IndependentOrderedRules ==
    detPc = "detected" =>
        /\ RulesIndependent
        /\ InFixedOrder(detChanges)
        /\ ( /\ OnlyStatusAndHearingDiffer
             /\ Truthy(detFresh.currentStatus)
             /\ Truthy(detFresh.nextHearingDate)
             /\ detRow.current_status # "Unknown" )
              => KindsOf(detChanges) = <<"status_change", "hearing_date_change">>

\* detection ran on a pair that differs in status and next hearing date only,
\* both fresh values non-empty, and returned two events
C6_Witness ==
    /\ detPc = "detected"
    /\ OnlyStatusAndHearingDiffer
    /\ Truthy(detFresh.currentStatus) /\ Truthy(detRow.current_status)
    /\ Truthy(detFresh.nextHearingDate) /\ Truthy(detRow.next_hearing_date)
    /\ Len(detChanges) = 2

(***************************************************************************)
(* Properties of case-type resolution (SpecCaseType)                       *)
(***************************************************************************)
\* C7: with no explicit type code, "Civil Appeal", "CA", "C.A." and "ca" all
\* resolve to the registry code of C.A., "3".
C7_CivilAppealSpellingsResolveTo3 ==
    (ctPc # "start" /\ ctCode = NULL /\ ctType \in CivilAppealSpellings)
        => ctResult = <<"3">>

\* strip punctuation and whitespace, upper-case
NormalizeType(t) == StripPunct(trim(toUpperCase(t)))

\* t is a known code, or normalizes to a normalized label or alias
KnownType(t) ==
    \/ t \in DOMAIN SC_CASE_TYPE_MAP
    \/ \E c \in DOMAIN SC_CASE_TYPE_MAP :
          NormalizeType(t) = NormalizeType(SC_CASE_TYPE_MAP[c])
    \/ \E a \in DOMAIN aliases : NormalizeType(t) = NormalizeType(a)

\* C8: a case type that matches no known code, label or alias resolves to the
\* default code, and the Supreme Court lookup goes on to the retry loop with it.
C8_UnknownTypeResolvesToDefault ==
    (ctPc # "start" /\ ctCode = NULL /\ ~KnownType(ctType))
        => ctResult = DefaultTypeCode

(***************************************************************************)
(* Properties of the update pipeline (SpecPipeline)                        *)
(***************************************************************************)
\* the cron run left its loop because the deadline check found the budget
\* spent at batch position plDeadlineAt, i.e. after k = plDeadlineAt - 1 cases
DeadlineHit == plImpl = "cron" /\ plPc \in {"sweep", "done"} /\ plDeadlineAt > 0

CasesBeforeDeadline == { plBatch[i] : i \in 1 .. (plDeadlineAt - 1) }

CasesFromDeadline == { plBatch[i] : i \in plDeadlineAt .. Len(plBatch) }

\* no resolution was attempted for the cases from the deadline on and their
\* stored rows are as the run read them; the cases before it were all resolved
\* and had last_checked_at written
DeadlineCutsBatch ==
    /\ plResolved = CasesBeforeDeadline
    /\ \A id \in CasesBeforeDeadline : cases[id].last_checked_at > plRows[id].last_checked_at
    /\ \A id \in CasesFromDeadline : cases[id] = plRows[id]

\* C9 as stated: when the deadline is found crossed before case k+1, the
\* summary reports casesChecked = k, cases 1..k were processed and cases
\* k+1..N were neither resolved nor written.
C9_AsStated ==
    DeadlineHit => (casesChecked = plDeadlineAt - 1 /\ DeadlineCutsBatch)

\* C9 amended: casesChecked is k minus the cases among 1..k whose processing
\* raised an exception (they are counted in errorCount); cases 1..k were all
\* resolved, cases k+1..N were neither resolved nor written.
C9_DeadlineStopsLoop ==
    DeadlineHit => (casesChecked = (plDeadlineAt - 1) - errorCount /\ DeadlineCutsBatch)

\* two active cases, the deadline found crossed before the second one
C9_Witness ==
    /\ DeadlineHit /\ plPc = "done"
    /\ Len(plBatch) = 2 /\ plDeadlineAt = 2
    /\ casesChecked = 1 /\ errorCount = 0
    /\ plResolved = {plBatch[1]}

\* the row of the current case right after the pipeline wrote it for a
\* non-null snapshot
JustWritten ==
    \/ plImpl = "cron" /\ plPc = "changes"
    \/ plImpl = "script" /\ plPc = "delay"

FreshFieldsWritten(before, after, F) ==
    /\ after.current_status = Or(F.currentStatus, before.current_status)
    /\ after.next_hearing_date = Or(F.nextHearingDate, before.next_hearing_date)
    /\ after.last_order_date = Or(F.lastOrderDate, before.last_order_date)
    /\ after.last_order_summary = Or(F.lastOrderSummary, before.last_order_summary)
    /\ after.petitioner = Or(F.petitioner, before.petitioner)
    /\ after.judges = Or(F.judges, before.judges)
    /\ after.raw_data = Or(F.rawData, before.raw_data)

ChangeStampIffEvents(before, after) ==
    /\ after.last_checked_at = plNow
    /\ Len(plChanges) > 0 => after.last_changed_at = plNow
    /\ Len(plChanges) = 0 => after.last_changed_at = before.last_changed_at

\* C10: for a non-null snapshot the pipeline writes the fresh snapshot fields
\* and a refreshed last_checked_at; last_changed_at is refreshed when at least
\* one event was emitted and left as it was when none was.
C10_SnapshotWriteAndChangeStamp ==
    JustWritten =>
        /\ FreshFieldsWritten(CurrentRow, cases[CurrentId], plFresh)
        /\ ChangeStampIffEvents(CurrentRow, cases[CurrentId])

\* the cron route alone does write them
CronWritesSnapshotAndStamp ==
    (JustWritten /\ plImpl = "cron") =>
        /\ FreshFieldsWritten(CurrentRow, cases[CurrentId], plFresh)
        /\ ChangeStampIffEvents(CurrentRow, cases[CurrentId])

\* both pipelines refresh last_changed_at exactly when events were emitted
ChangeStampOnlyOnEvents ==
    JustWritten => ChangeStampIffEvents(CurrentRow, cases[CurrentId])

\* batch positions of this run whose resolution came back null
NullPositions == { i \in DOMAIN plOutcomes : plOutcomes[i] = "null" }

ChangeKinds == {"status_change", "hearing_date_change", "new_order", "judge_change"}

\* the stored row differs from the row the run read in last_checked_at only,
\* and that one moved forward
OnlyLastCheckedAdvanced(before, after) ==
    /\ after = [before EXCEPT !.last_checked_at = after.last_checked_at]
    /\ after.last_checked_at > before.last_checked_at

NoRecordNoNotice(id) ==
    /\ \A i \in DOMAIN case_updates : case_updates[i].case_id # id
    /\ \A i \in DOMAIN notified :
          notified[i].case_id = id => notified[i].updateType \notin ChangeKinds

\* C11: a null resolution advances only that case's last_checked_at; no
\* snapshot field and no last_changed_at changes, no change record is appended,
\* no change notification is sent, and the run goes on.
C11_NullAdvancesOnlyLastChecked ==
    \A i \in NullPositions :
        /\ OnlyLastCheckedAdvanced(plRows[plBatch[i]], cases[plBatch[i]])
        /\ NoRecordNoNotice(plBatch[i])
        /\ plPc # "failed"

\* the cron route alone does so
CronNullAdvancesOnlyLastChecked ==
    plImpl = "cron" => C11_NullAdvancesOnlyLastChecked

\* the script leaves the whole row as it was, last_checked_at included
ScriptNullWritesNothing ==
    plImpl = "script" =>
        \A i \in NullPositions :
            cases[plBatch[i]] = plRows[plBatch[i]] /\ NoRecordNoNotice(plBatch[i])

(***************************************************************************)
(* Properties of serialized runs (SpecRuns); every run is on TodayStr      *)
(***************************************************************************)
RemindersOf(id, types) ==
    { i \in DOMAIN notified :
        notified[i].case_id = id /\ notified[i].updateType \in types }

\* C12: over the runs of one day a case receives at most one hearing reminder
\* (per channel the notifier serves), because the sweep skips a case that
\* already has a reminder recorded that day.
C12_OneReminderPerDay ==
    \A id \in CaseIds :
        Cardinality(RemindersOf(id, {"hearing_reminder", "listing"})) <= 1

\* the same for the reminders of the cron route's sweep alone
CronRemindsOncePerDay ==
    \A id \in CaseIds : Cardinality(RemindersOf(id, {"hearing_reminder"})) <= 1

\* and for the reminders of checkUpcomingHearings alone
ScriptRemindsOncePerDay ==
    \A id \in CaseIds : Cardinality(RemindersOf(id, {"listing"})) <= 1

\* the stored column and the snapshot field a kind of event compares
StoredField(row, kind) ==
    CASE kind = "status_change"       -> row.current_status
      [] kind = "hearing_date_change" -> row.next_hearing_date
      [] kind = "new_order"           -> row.last_order_date
      [] kind = "judge_change"        -> row.judges

FreshField(F, kind) ==
    CASE kind = "status_change"       -> F.currentStatus
      [] kind = "hearing_date_change" -> F.nextHearingDate
      [] kind = "new_order"           -> F.lastOrderDate
      [] kind = "judge_change"        -> F.judges

PortalBefore == CHOOSE u \in upstreamPrev : TRUE
PortalNow == CHOOSE u \in upstream : TRUE

\* the portal's value of the kind's field became a non-empty other value
FieldChangedUpstream(kind) ==
    /\ Truthy(FreshField(PortalNow, kind))
    /\ FreshField(PortalNow, kind) # StoredField(RowFrom(PortalBefore), kind)

EventsRecorded(id, kind) ==
    { i \in DOMAIN case_updates :
        case_updates[i].case_id = id /\ case_updates[i].update_type = kind }

BetweenCases == plPc \in {"start", "loop", "sweep", "done", "failed", "crashed"}

\* a cycle has stored the portal's new value for the kind's field
NewValueStored(id, kind) ==
    BetweenCases /\ StoredField(cases[id], kind) = FreshField(PortalNow, kind)

ExactlyOncePerChange(kinds) ==
    upstreamPrev # {} =>
        \A kind \in kinds :
            /\ Cardinality(EventsRecorded(1, kind)) <= 1
            /\ (FieldChangedUpstream(kind) /\ NewValueStored(1, kind))
                  => Cardinality(EventsRecorded(1, kind)) = 1

\* C13: over serialized runs a change of a tracked field at the portal (to a
\* non-empty value that then stays) gives exactly one persisted change event of
\* that field's kind: one by the run that first stores the new value, none by
\* any later run.
C13_ExactlyOneEventPerChange == ExactlyOncePerChange(ChangeKinds)

\* the same for the three kinds both pipelines have a rule for
ExactlyOnceWithoutJudges == ExactlyOncePerChange(ChangeKinds \ {"judge_change"})

\* every kind is recorded at most once per change, in every run order
AtMostOncePerChange ==
    upstreamPrev # {} =>
        \A kind \in ChangeKinds : Cardinality(EventsRecorded(1, kind)) <= 1

(***************************************************************************)
(* Change records before the snapshot write (SpecPipeline)                 *)
(***************************************************************************)
\* the batch position of the case resolved last
LastPosition == Len(plOutcomes)

\* plFresh and plChanges are those of the case at LastPosition
ChangesAreOfLastCase ==
    /\ LastPosition > 0
    /\ \/ plOutcomes[LastPosition] = "snapshot"
       \/ plImpl = "cron" /\ plOutcomes[LastPosition] = "throw"

\* the store holds the new value of the field the k-th detected change is about
NewValueInStore(k) ==
    StoredField(cases[plBatch[LastPosition]], plChanges[k].type)
        = FreshField(plFresh, plChanges[k].type)

ChangeRecorded(k) == EventsRecorded(plBatch[LastPosition], plChanges[k].type) # {}

NoNewValueWithoutRecord ==
    ChangesAreOfLastCase =>
        \A k \in DOMAIN plChanges : NewValueInStore(k) => ChangeRecorded(k)

\* C27: for a case with detected changes every change record is appended
\* before the case's new snapshot fields are written: in no reachable state,
\* also after a failure part-way through the case, does the store hold the new
\* value of a changed field while the record of that change is missing.
C27_RecordsBeforeSnapshotWrite == NoNewValueWithoutRecord

\* the script inserts and notifies every change before its update
ScriptRecordsBeforeSnapshotWrite == plImpl = "script" => NoNewValueWithoutRecord

(***************************************************************************)
(* Properties of CourtService.searchByPartyName (SpecSearch)               *)
(***************************************************************************)
CallsTo(providers) == SelectSeq(srCalls, LAMBDA c : c.provider \in providers)

RECURSIVE ResultsIn(_)
ResultsIn(calls) ==
    IF calls = << >> THEN << >> ELSE Head(calls).results \o ResultsIn(Tail(calls))

OfficialResults == ResultsIn(CallsTo({"sc", "ecourts"}))

PublicResults == ResultsIn(CallsTo({"ik"}))

TitleKey(title) ==
    toUpperCase(SubSeq(title, 1, IF Len(title) < 30 THEN Len(title) ELSE 30))

NoTitlePrefixTwice(results) ==
    \A i, j \in DOMAIN results :
        i # j => TitleKey(results[i].caseTitle) # TitleKey(results[j].caseTitle)

\* the request named no court category and both official providers answered
\* with results
MergedOfficialSearch ==
    /\ srPc = "returned"
    /\ ~Truthy(srCourtType)
    /\ Len(ResultsIn(CallsTo({"sc"}))) > 0
    /\ Len(ResultsIn(CallsTo({"ecourts"}))) > 0

\* C21: the list party-name search returns when it combines the Supreme Court
\* and eCourts results holds no two results whose case titles agree,
\* case-insensitively, on their first 30 characters.
C21_MergedResultsDeduplicated == MergedOfficialSearch => NoTitlePrefixTwice(srReturn)

\* the merged list is the plain concatenation of what the providers returned
MergedListIsConcatenation == MergedOfficialSearch => srReturn = OfficialResults

(***************************************************************************)
(* Failure handling of a run (SpecPipeline)                                *)
(***************************************************************************)
ThrowPositions == { i \in DOMAIN plOutcomes : plOutcomes[i] = "throw" }

LoopOver == plPc \in {"sweep", "done", "crashed"}

\* C15: an exception while one case is processed is counted in the error
\* counter and goes no further: the run does not fail on it, and the loop
\* still visits every later case of the batch up to the deadline.
C15_CaseExceptionIsolated ==
    /\ plImpl = "cron" => errorCount = Cardinality(ThrowPositions)
    /\ plImpl = "script" => errorCount = Cardinality(ThrowPositions \cup NullPositions)
    /\ plPc = "failed" => plOutcomes = << >>
    /\ (LoopOver /\ plDeadlineAt = 0) => Len(plOutcomes) = Len(plBatch)
    /\ (LoopOver /\ plDeadlineAt > 0) => Len(plOutcomes) = plDeadlineAt - 1

\* the first case threw, the second was still processed, the run ended with
\* its summary
C15_Witness ==
    /\ plPc = "done"
    /\ Len(plBatch) = 2
    /\ plOutcomes = <<"throw", "snapshot">>
    /\ errorCount = 1

\* the caller sees a failure status: 500 or a non-zero exit
RunFailed == plPc \in {"failed", "crashed"}

NothingDone ==
    /\ plIdx = 0 /\ plBatch = << >>
    /\ plResolved = {} /\ plOutcomes = << >>
    /\ cases \in [CaseIds -> InitRows]
    /\ case_updates = << >> /\ notified = << >>

\* C16: a failed initial read of the active cases ends the run with a failure
\* status before any case is resolved, any record written or any notification
\* sent, and nothing else makes a run end with a failure status.
C16_OnlyInitialReadIsFatal == RunFailed => NothingDone

\* the first half alone: the failed initial read aborts before anything is done
InitialReadFailureAbortsFirst == plPc = "failed" => NothingDone

JudgeEvents == EventsOfType(detChanges, "judge_change")

JudgesChanged == Truthy(detFresh.judges) /\ detFresh.judges # detRow.judges

JudgeChangeEmitted ==
    (detPc = "detected" /\ JudgesChanged)
        => JudgeEvents = << Event("judge_change", detRow.judges, <<detFresh.judges>>) >>

\* C18: change detection emits a judge_change event, old value the stored
\* judges and new value the fresh judges, whenever the fresh judges field is
\* non-empty and differs from the stored one.
C18_JudgeChangeEmitted == JudgeChangeEmitted

\* the script's detectChanges does so
ScriptEmitsJudgeChange == detImpl = "script" => JudgeChangeEmitted

\* the route's detection never yields a judge_change event
CronNeverEmitsJudgeChange ==
    (detPc = "detected" /\ detImpl = "cron") => JudgeEvents = << >>

OrderEvents == EventsOfType(detChanges, "new_order")

OrderChanged ==
    Truthy(detFresh.lastOrderDate) /\ detFresh.lastOrderDate # detRow.last_order_date

\* "{date}: {summary}", or the date alone without a summary
DateColonSummary ==
    IF Truthy(detFresh.lastOrderSummary)
    THEN <<detFresh.lastOrderDate, ": ", detFresh.lastOrderSummary>>
    ELSE <<detFresh.lastOrderDate>>

\* C19: the new value of a new_order event is the fresh last-order date, a
\* colon, a space and the summary when the fresh snapshot has a summary, and
\* the date alone when it has none.
C19_NewOrderValueFormat ==
    (detPc = "detected" /\ OrderChanged)
        => /\ Len(OrderEvents) = 1
           /\ OrderEvents[1].newValue = DateColonSummary

\* what each implementation writes instead
CronOrderValue ==
    IF Truthy(detFresh.lastOrderSummary)
    THEN <<detFresh.lastOrderDate, " - ", detFresh.lastOrderSummary>>
    ELSE <<detFresh.lastOrderDate>>

ScriptOrderValue ==
    IF Truthy(detFresh.lastOrderSummary)
    THEN <<"New order on ", detFresh.lastOrderDate, ": ", detFresh.lastOrderSummary>>
    ELSE <<"New order on ", detFresh.lastOrderDate, ": ">>

NewOrderValueAsWritten ==
    (detPc = "detected" /\ OrderChanged)
        => /\ Len(OrderEvents) = 1
           /\ OrderEvents[1].oldValue = detRow.last_order_date
           /\ OrderEvents[1].newValue =
                  (IF detImpl = "cron" THEN CronOrderValue ELSE ScriptOrderValue)

\* without a summary the route writes the date alone
CronDateAloneWithoutSummary ==
    (detPc = "detected" /\ detImpl = "cron" /\ OrderChanged
        /\ ~Truthy(detFresh.lastOrderSummary))
        => OrderEvents[1].newValue = DateColonSummary

(***************************************************************************)
(* The inter-case delay (SpecPipeline)                                     *)
(***************************************************************************)
\* batch positions whose case has been resolved and left behind
FinishedPositions == { i \in DOMAIN plOutcomes : i < plIdx }

\* C20: within one run the inter-case delay elapses between the resolution of
\* a case and the resolution of the next case of the batch, whatever the
\* outcome of the earlier case: k resolutions are separated by k - 1 delays.
C20_DelayBetweenResolutions == Len(plOutcomes) <= plDelays + 1

\* the delay elapses after exactly the cases that resolved to a snapshot and
\* were processed without an exception
DelayOnlyAfterProcessedSnapshots ==
    plDelays = Cardinality({ i \in FinishedPositions : plOutcomes[i] = "snapshot" })

(***************************************************************************)
(* Properties of the cron endpoint (SpecAuth)                              *)
(***************************************************************************)
\* the header is "Bearer " followed by the configured secret
HeaderIsBearerSecret ==
    /\ authSecret # Absent
    /\ authHeader # Absent
    /\ authHeader = BearerPrefix \o authSecret

AuthOutcomeExact ==
    authPc # "request" =>
        /\ HeaderIsBearerSecret => (authPc = "runCaseUpdates" /\ authRuns = 1)
        /\ ~HeaderIsBearerSecret => (authPc = "401" /\ authRuns = 0)

\* C17: a run starts only for a request whose Authorization header is exactly
\* "Bearer " followed by the configured secret, by GET and by POST alike; every
\* other header value is answered with 401 and starts nothing.
C17_RunOnlyWithExactSecret == AuthOutcomeExact

\* with CRON_SECRET set in the environment the check is exact
ExactWhenSecretConfigured == authSecret # Absent => AuthOutcomeExact

(***************************************************************************)
(* Retry only after a CAPTCHA rejection (SpecLookup)                       *)
(***************************************************************************)
\* the loop is about to negotiate a further session
FurtherNegotiationDue == lkPc = "loop" /\ lkAttempt > 1

\* C23: within one provider lookup a further session negotiation happens only
\* after a submitted request was classified as CAPTCHA-rejected; a transport
\* error or a no-record answer ends the lookup at once with a null result.
C23_RetryOnlyAfterCaptchaRejection ==
    /\ FurtherNegotiationDue => lkLast = "captcha_rejected"
    /\ lkLast \in {"transport_error", "no_record"} => (lkPc = "done" /\ lkResult = "null")

\* a no-record answer is final in every lookup
NoRecordEndsLookup == lkLast = "no_record" => (lkPc = "done" /\ lkResult = "null")

\* what a further negotiation can follow in the code as written
FurtherNegotiationCauses ==
    FurtherNegotiationDue =>
        lkLast \in (IF lkFn = "SC_STATUS"
                    THEN {"captcha_rejected", "transport_error", "session_error"}
                    ELSE {"captcha_rejected", "transport_error"})

(***************************************************************************)
(* Sessions and CAPTCHA answers (SpecLookup)                               *)
(***************************************************************************)
\* lkLast after a request was submitted with lkSession
SubmitOutcomes == {"transport_error", "captcha_rejected", "no_record", "case_found"}

\* negotiation yielded lkSession, or a request was submitted with it
SessionInUse == lkLast \in {"session"} \cup SubmitOutcomes

SessionHasAnswer == SessionInUse => Truthy(lkSession.captcha)

\* C24: session negotiation yields no session whenever no CAPTCHA answer could
\* be obtained, and no case query is submitted for that attempt: every session
\* yielded, and every session a request was submitted with, carries a
\* non-empty CAPTCHA answer.
C24_NoSessionWithoutAnswer == SessionHasAnswer

\* the Supreme Court negotiation throws without an answer
ScSessionHasAnswer == lkFn = "SC_STATUS" => SessionHasAnswer

(***************************************************************************)
(* Properties of notification (SpecNotify)                                 *)
(***************************************************************************)
AttemptsOn(channel) == SelectSeq(ntAttempts, LAMBDA a : a.channel = channel)

RecordsOf(channel) == SelectSeq(alert_log, LAMBDA r : r.alert_type = channel)

ChannelEnabled(channel) ==
    ntProfile # << >> /\ ChannelOn(ntProfile[1], channel)

\* C22: for a change handed to notification, each channel that is enabled and
\* configured in the profile gets exactly one delivery attempt and exactly one
\* alert-log record, "sent" iff the transport reported success and "failed"
\* otherwise, whatever happened on the other channel; a disabled or
\* unconfigured channel gets no attempt and no record.
C22_OneAttemptOneRecordPerChannel ==
    ntPc = "returned" =>
        \A c \in Channels :
            IF ChannelEnabled(c)
            THEN /\ Len(AttemptsOn(c)) = 1
                 /\ Len(RecordsOf(c)) = 1
                 /\ RecordsOf(c)[1].status = "sent" <=> AttemptsOn(c)[1].sent
                 /\ RecordsOf(c)[1].status \in {"sent", "failed"}
            ELSE AttemptsOn(c) = << >> /\ RecordsOf(c) = << >>

\* both channels were on, telegram failed, email was sent, and both outcomes
\* are in the log
C22_Witness ==
    /\ ntPc = "returned"
    /\ ChannelEnabled("telegram") /\ ChannelEnabled("email")
    /\ ~AttemptsOn("telegram")[1].sent
    /\ AttemptsOn("email")[1].sent
    /\ RecordsOf("telegram")[1].status = "failed"
    /\ RecordsOf("email")[1].status = "sent"

(***************************************************************************)
(* Properties of Supreme Court session negotiation (SpecSession)           *)
(***************************************************************************)
Did(op) == \E i \in DOMAIN gsTrace : gsTrace[i] = op

Before(op1, op2) ==
    \A j \in DOMAIN gsTrace :
        gsTrace[j] = op2 => \E i \in 1 .. (j - 1) : gsTrace[i] = op1

MarkupAnswer == trySolveCaptchaFromHtml(gsPage)

\* C25: the answer is looked for in the page markup before any image
\* download; when the markup yields an answer the session is returned with
\* it and neither the image is fetched nor the solver called; the solver is
\* called only after the markup attempt produced no answer.
C25_MarkupBeforeImage ==
    /\ Before("markup", "image")
    /\ Before("markup", "vision")
    /\ (Did("markup") /\ MarkupAnswer # << >>)
          => /\ gsResult = Session(MarkupAnswer)
             /\ ~Did("image") /\ ~Did("vision")
    /\ Did("vision") => MarkupAnswer = << >>

\* the page leaks the answer in its markup and also carries an image the
\* solver could read; the session came back with the markup's answer
C25_Witness ==
    /\ gsPc = "done"
    /\ gsPage.imageUrl /\ gsEnv.imageOk /\ gsEnv.azureConfigured
    /\ gsEnv.visionAnswer # << >>
    /\ MarkupAnswer = <<"0">>
    /\ gsResult = Session(<<"0">>)

(***************************************************************************)
(* Fair scheduling of the cases (SpecForever)                              *)
(***************************************************************************)
\* the batch is in ascending order of last_checked_at as the run read it,
\* never-checked cases (0) first, and the cases were attempted in batch order
OldestCheckedFirst ==
    /\ \A i, j \in DOMAIN plBatch :
          i < j => plRows[plBatch[i]].last_checked_at <= plRows[plBatch[j]].last_checked_at
    /\ plResolved = { plBatch[i] : i \in DOMAIN plOutcomes }

PipelineFields == DOMAIN TrackedRow(NewRow) \ allowedFields

\* the owner's columns of every row are what the owner last asked for
OwnerColumnsAreLatest ==
    \A id \in CaseIds : Columns(cases[id], allowedFields) = ptLast[id]

\* a step of the run leaves the owner's columns alone, a PATCH leaves the
\* pipeline's columns alone
WritesAreDisjoint ==
    \A id \in CaseIds :
        IF ptCount' = ptCount
        THEN Columns(cases'[id], allowedFields) = Columns(cases[id], allowedFields)
        ELSE Columns(cases'[id], PipelineFields) = Columns(cases[id], PipelineFields)

\* the row a run has just written holds the snapshot's fields, whatever
\* PATCH came in since the run read it
SnapshotColumnsAreLatest ==
    (JustWritten /\ plImpl = "cron") =>
        /\ FreshFieldsWritten(CurrentRow, cases[CurrentId], plFresh)
        /\ cases[CurrentId].last_checked_at = plNow

\* C29: in every interleaving of a pipeline run with PATCH requests on the
\* same cases neither write clobbers the other: no step of the run changes
\* tags, notes or is_active, no PATCH changes a snapshot field,
\* last_checked_at or last_changed_at, so the row holds the owner's latest
\* tags, notes and is_active and the run's latest snapshot fields.
C29_NeitherWriteClobbers ==
    /\ []OwnerColumnsAreLatest
    /\ [][WritesAreDisjoint]_vars
    /\ []SnapshotColumnsAreLatest

\* a PATCH landed between the run's read of the row and its write of it
C29_Witness ==
    /\ ptCount > 0
    /\ plImpl = "cron" /\ plPc = "changes"
    /\ cases[CurrentId].notes # CurrentRow.notes
    /\ cases[CurrentId].tags # CurrentRow.tags
    /\ cases[CurrentId].current_status # CurrentRow.current_status

(***************************************************************************)
(* Properties of the lookups of one getCaseStatus call (SpecEndpoints)     *)
(***************************************************************************)
RegistryLookups == {"HC_CNR", "DC_CNR"}

IssuedAt(fn) == { i \in DOMAIN ecLog : ecLog[i].fn = fn }

NonScWithRegistryNumber == ecId.courtType # "SC" /\ Truthy(ecId.cnrNumber)

\* C30: one CourtService.getCaseStatus call for a non-SC identifier with a
\* registry number issues the registry-number lookup to each eCourts
\* endpoint (high-court, district-court) at most once, however the lookups
\* turn out.
C30_RegistryLookupOncePerEndpoint ==
    NonScWithRegistryNumber =>
        \A fn \in RegistryLookups : Cardinality(IssuedAt(fn)) <= 1

\* what the code does keep: each endpoint gets the registry-number lookup at
\* most twice, the second time only after the provider's own registry-number
\* and case-number lookups all came back null, and never without a number
RegistryLookupAtMostTwice ==
    \A fn \in RegistryLookups :
        /\ Cardinality(IssuedAt(fn)) <= 2
        /\ ~Truthy(ecId.cnrNumber) => IssuedAt(fn) = {}
        /\ \A i, j \in IssuedAt(fn) :
              i < j => \E k \in i + 1 .. j - 1 :
                          ecLog[k].fn \in {"HC_NUMBER", "DC_NUMBER"}

(***************************************************************************)
(* Specifications                                                          *)
(***************************************************************************)
SpecCaseType == InitCaseType /\ [][NextCaseType]_vars

SpecDetect == InitDetect /\ [][NextDetect]_vars

SpecLookup == InitLookup /\ [][NextLookup]_vars

SpecService == InitService /\ [][NextService]_vars

SpecPipeline == InitPipeline /\ [][NextPipeline]_vars

SpecRuns == InitRuns /\ [][NextRuns]_vars

SpecSearch == InitSearch /\ [][NextSearch]_vars

SpecAuth == InitAuth /\ [][NextAuth]_vars

SpecNotify == InitNotify /\ [][NextNotify]_vars

SpecSession == InitSession /\ [][NextSession]_vars

SpecForever == InitForever /\ [][NextForever]_vars /\ FairRuns

SpecPatch == InitPatch /\ [][NextPatch]_vars

SpecEndpoints == InitEndpoints /\ [][NextEndpoints]_vars

====
